---- MODULE Spec2Model ----
(***************************************************************************)
(* Verification model of the mutual-fund FAQ chatbot.                      *)
(*                                                                         *)
(* The model covers the retrieval and response pipeline of                 *)
(* scripts/gemini_web_chatbot.py (class WebGeminiFAQAssistant and the      *)
(* Flask routes /init, /ask, /history) and the corresponding pipeline of   *)
(* scripts/robust_gemini_web_chatbot.py (class                             *)
(* WebRobustGeminiFAQAssistant).                                           *)
(*                                                                         *)
(* Text is modelled at character level: a Python str is a sequence of      *)
(* one-character strings, so that the keyword tests of the code            *)
(* (`k in q`, q.startswith, str.split, re.search) are computed as the code *)
(* computes them.  A multi-line text is a sequence of lines.               *)
(* Similarities are fixed-point numbers scaled by 100 (0.2 is 20).         *)
(***************************************************************************)
EXTENDS Integers, Sequences, FiniteSets, TLC

VARIABLES
  rag_chunks,      \* rag_data/rag_chunks.json, flattened in file order
  assistant,       \* the global `assistant` of the web shell (None when unset)
  request,         \* the HTTP request in flight (None when there is none)
  reply,           \* the HTTP reply in flight, with a trace of the handler
  files,           \* rag_data/rag_chunks.json and rag_data/embeddings.pkl
  process,         \* a chatbot process: what it loaded and its last ranking
  db,              \* data/mutual_funds.db: the tables schemes, scheme_data, scrape_logs
  scrape           \* the results of scrape_all_schemes and its last attempt

web_vars == <<rag_chunks, assistant, request, reply>>
files_vars == <<files, process>>
db_vars == <<db, scrape>>
vars == <<web_vars, files_vars, db_vars>>

None == [none |-> TRUE]

(***************************************************************************)
(* Bounds of the exploration.                                              *)
(***************************************************************************)
MaxChunks == 2
MaxPhrases == 1
MaxHistory == 1

(***************************************************************************)
(* Python str operations.                                                  *)
(***************************************************************************)
UpperAlpha == <<"A","B","C","D","E","F","G","H","I","J","K","L","M","N","O","P","Q","R","S","T","U","V","W","X","Y","Z">>
LowerAlpha == <<"a","b","c","d","e","f","g","h","i","j","k","l","m","n","o","p","q","r","s","t","u","v","w","x","y","z">>
Digits == <<"0","1","2","3","4","5","6","7","8","9">>

\* the position of a character in a string, 0 when it is absent
IndexIn(c, s) ==
  IF \E i \in 1..Len(s) : s[i] = c
    THEN CHOOSE i \in 1..Len(s) : s[i] = c
    ELSE 0

ToLower == [c \in {UpperAlpha[i] : i \in 1..26} |-> LowerAlpha[IndexIn(c, UpperAlpha)]]
ToUpper == [c \in {LowerAlpha[i] : i \in 1..26} |-> UpperAlpha[IndexIn(c, LowerAlpha)]]
DigitSet == {Digits[i] : i \in 1..10}

IsUpper(c) == c \in DOMAIN ToLower
IsLower(c) == c \in DOMAIN ToUpper
IsAlpha(c) == IsUpper(c) \/ IsLower(c)
IsDigit(c) == c \in DigitSet
IsSpace(c) == c = " "

LowerChar(c) == IF IsUpper(c) THEN ToLower[c] ELSE c
UpperChar(c) == IF IsLower(c) THEN ToUpper[c] ELSE c

\* str.lower()
Lower(s) == [i \in 1..Len(s) |-> LowerChar(s[i])]

\* str.upper()
Upper(s) == [i \in 1..Len(s) |-> UpperChar(s[i])]

\* str.strip()
Strip(s) ==
  LET idx == {i \in 1..Len(s) : ~IsSpace(s[i])}
  IN  IF idx = {} THEN <<>>
      ELSE LET lo == CHOOSE i \in idx : \A j \in idx : i <= j
               hi == CHOOSE i \in idx : \A j \in idx : j <= i
           IN  SubSeq(s, lo, hi)

\* k == s[i : i + len(k)]
MatchesAt(s, k, i) ==
  /\ i >= 1
  /\ i + Len(k) - 1 <= Len(s)
  /\ \A j \in 1..Len(k) : s[i + j - 1] = k[j]

\* `k in s` for two str
Contains(s, k) == \E i \in 1..(Len(s) - Len(k) + 1) : MatchesAt(s, k, i)

\* s.startswith(k)
StartsWith(s, k) == MatchesAt(s, k, 1)

\* any(k in s for k in keywords)
AnyIn(keywords, s) == \E n \in 1..Len(keywords) : Contains(s, keywords[n])

\* str.split(): the maximal runs of non-whitespace characters, in order
RECURSIVE Split(_)
Split(s) ==
  IF s = <<>> THEN <<>>
  ELSE IF IsSpace(s[1]) THEN Split(Tail(s))
  ELSE LET stops == {i \in 1..Len(s) : IsSpace(s[i])}
           end == IF stops = {} THEN Len(s)
                  ELSE (CHOOSE i \in stops : \A j \in stops : i <= j) - 1
       IN  <<SubSeq(s, 1, end)>> \o Split(SubSeq(s, end + 1, Len(s)))

\* str.replace('_', ' ')
ReplaceUnderscore(s) == [i \in 1..Len(s) |-> IF s[i] = "_" THEN " " ELSE s[i]]

\* str.title(): the first letter of each run of letters in upper case, the
\* other letters in lower case
Title(s) ==
  [i \in 1..Len(s) |->
     IF i = 1 \/ ~IsAlpha(s[i - 1]) THEN UpperChar(s[i]) ELSE LowerChar(s[i])]

\* int() of a run of decimal digits
RECURSIVE IntOf(_)
IntOf(ds) ==
  IF ds = <<>> THEN 0
  ELSE 10 * IntOf(SubSeq(ds, 1, Len(ds) - 1)) + (IndexIn(ds[Len(ds)], Digits) - 1)

Min(a, b) == IF a <= b THEN a ELSE b

\* "".join of parts with one separator between them
RECURSIVE Join(_, _)
Join(parts, sep) ==
  IF parts = <<>> THEN <<>>
  ELSE IF Len(parts) = 1 THEN parts[1]
  ELSE parts[1] \o sep \o Join(Tail(parts), sep)

\* text.split('\n') of "\n".join(parts): a part that begins with a newline
\* contributes an empty line before its text.  A part is [nl, text].
RECURSIVE Lines(_)
Lines(parts) ==
  IF parts = <<>> THEN <<>>
  ELSE (IF parts[1].nl THEN << <<>>, parts[1].text >> ELSE << parts[1].text >>)
       \o Lines(Tail(parts))

P(text) == [nl |-> FALSE, text |-> text]
NlP(text) == [nl |-> TRUE, text |-> text]

\* one text is found verbatim inside another (both as sequences of lines):
\* the lines of `inner` are consecutive lines of `outer`
ContainsLines(outer, inner) ==
  \E i \in 1..(Len(outer) - Len(inner) + 1) :
    \A j \in 1..Len(inner) : outer[i + j - 1] = inner[j]

\* a value occurs in a text
TextContains(lines, v) == \E i \in 1..Len(lines) : Contains(lines[i], v)

(***************************************************************************)
(* Keyword tables of WebGeminiFAQAssistant.answer_question.                *)
(***************************************************************************)
greeting_keywords ==
  << <<"h","i">>, <<"h","e","l","l","o">>, <<"h","e","y">>, <<"g","r","e","e","t","i","n","g","s">>, <<"g","o","o","d"," ","m","o","r","n","i","n","g">>, <<"g","o","o","d"," ","a","f","t","e","r","n","o","o","n">>,
     <<"g","o","o","d"," ","e","v","e","n","i","n","g">>, <<"w","h","a","t","'","s"," ","u","p">>, <<"h","o","w","d","y">>, <<"n","a","m","a","s","t","e">> >>

holdings_keywords ==
  << <<"h","o","l","d","i","n","g">>, <<"h","o","l","d","i","n","g","s">>, <<"s","t","o","c","k">>, <<"s","t","o","c","k","s">>, <<"p","o","r","t","f","o","l","i","o">>, <<"c","o","m","p","o","s","i","t","i","o","n">>,
     <<"a","l","l","o","c","a","t","i","o","n">> >>

advice_keywords ==
  << <<"i","n","v","e","s","t">>, <<"b","u","y">>, <<"s","e","l","l">>, <<"h","o","l","d">>, <<"r","e","c","o","m","m","e","n","d">>, <<"r","e","c","o","m","m","e","n","d","a","t","i","o","n">>,
     <<"s","u","g","g","e","s","t">>, <<"a","l","l","o","c","a","t","e">>, <<"a","l","l","o","c","a","t","i","o","n">>, <<"p","o","r","t","f","o","l","i","o">>, <<"b","e","s","t"," ","f","u","n","d">>,
     <<"s","h","o","u","l","d"," ","i">>, <<"a","d","v","i","c","e">>, <<"t","o","p">>, <<"b","e","s","t">>, <<"r","a","n","k">>, <<"r","a","n","k","i","n","g">>,
     <<"o","u","t","p","e","r","f","o","r","m">>, <<"b","e","t","t","e","r"," ","t","h","a","n">>, <<"w","o","r","s","e"," ","t","h","a","n">>, <<"c","o","m","p","a","r","e">>, <<"c","o","m","p","a","r","i","s","o","n">> >>

nav_keywords ==
  << <<"n","a","v">>, <<"n","e","t"," ","a","s","s","e","t"," ","v","a","l","u","e">>, <<"c","u","r","r","e","n","t"," ","n","a","v">>, <<"t","o","d","a","y"," ","n","a","v">>, <<"c","u","r","r","e","n","t"," ","p","r","i","c","e">>,
     <<"s","i","p">>, <<"e","x","i","t"," ","l","o","a","d">>, <<"m","i","n","i","m","u","m"," ","s","i","p">>, <<"m","i","n"," ","s","i","p">> >>

pe_keywords ==
  << <<"p","/","e">>, <<"p","e"," ","r","a","t","i","o">>, <<"p","e"," ">>, <<"p","/","b">>, <<"p","b"," ","r","a","t","i","o">>, <<"p","b"," ">>,
     <<"p","r","i","c","e"," ","t","o"," ","e","a","r","n","i","n","g","s">>, <<"p","r","i","c","e"," ","t","o"," ","b","o","o","k">> >>

expense_keywords ==
  << <<"e","x","p","e","n","s","e"," ","r","a","t","i","o">>, <<"e","x","p","e","n","s","e">>, <<"c","o","s","t">>, <<"f","e","e">>, <<"c","h","a","r","g","e">>, <<"s","t","a","m","p"," ","d","u","t","y">> >>

characteristics_keywords ==
  << <<"f","u","n","d"," ","m","a","n","a","g","e","r">>, <<"m","a","n","a","g","e","r">>, <<"f","u","n","d"," ","s","i","z","e">>, <<"s","i","z","e">>, <<"c","a","t","e","g","o","r","y">>,
     <<"s","c","h","e","m","e"," ","t","y","p","e">>, <<"s","c","h","e","m","e">>, <<"l","o","c","k","-","i","n">>, <<"l","o","c","k"," ","i","n">>, <<"l","o","c","k","i","n">> >>

risk_keywords ==
  << <<"r","i","s","k">>, <<"r","i","s","k","o","m","e","t","e","r">>, <<"a","l","p","h","a">>, <<"b","e","t","a">>, <<"s","h","a","r","p","e">>, <<"s","o","r","t","i","n","o">>,
     <<"b","e","n","c","h","m","a","r","k">> >>

\* the second list the code binds to the name holdings_keywords (line 476)
holdings_intent_keywords ==
  << <<"h","o","l","d","i","n","g">>, <<"h","o","l","d","i","n","g","s">>, <<"s","t","o","c","k">>, <<"s","t","o","c","k","s">>, <<"p","o","r","t","f","o","l","i","o"," ","c","o","m","p","o","s","i","t","i","o","n">>,
     <<"t","o","p"," ","5">>, <<"t","o","p"," ","1","0">>, <<"t","o","p"," ","f","i","v","e">>, <<"t","o","p"," ","t","e","n">> >>

general_keywords ==
  << <<"w","h","a","t"," ","i","s">>, <<"w","h","a","t"," ","a","r","e">>, <<"d","e","f","i","n","e">>, <<"n","a","v">>, <<"a","u","m">>, <<"e","x","p","e","n","s","e"," ","r","a","t","i","o">>,
     <<"p","/","e"," ","r","a","t","i","o">>, <<"p","b"," ","r","a","t","i","o">>, <<"c","a","g","r">>, <<"s","h","a","r","p","e">>, <<"s","o","r","t","i","n","o">>, <<"b","e","t","a">>,
     <<"a","l","p","h","a">> >>

(***************************************************************************)
(* Thresholds and limits, scaled by 100 where they are similarities.       *)
(***************************************************************************)
Threshold == 20
LowSimilarity == 30
DefaultTopK == 10
TopKCap == 15
RobustThreshold == 10
RobustTopK == 3
RobustMaxLines == 10
SignificantLen == 3

(***************************************************************************)
(* Chunks.  A chunk is a record of fund_name, source_url, chunk_type and   *)
(* data; data is the ordered dict of the JSON file, a sequence of items    *)
(* [key, is_dict, value, items] (value for a scalar, items for a dict).    *)
(***************************************************************************)
Scalar(k, v) == [key |-> k, is_dict |-> FALSE, value |-> v, items |-> <<>>]
Dict(k, its) == [key |-> k, is_dict |-> TRUE, value |-> <<>>, items |-> its]

Chunk(f, u, t, d) == [fund_name |-> f, source_url |-> u, chunk_type |-> t, data |-> d]

\* `key in data`
HasKey(data, k) == \E i \in 1..Len(data) : data[i].key = k

\* data[key]
Get(data, k) == data[CHOOSE i \in 1..Len(data) : data[i].key = k]

\* Two funds of scripts/add_fund_chunks.py whose names have the same words of
\* more than three letters.
FundA == <<"U","T","I"," ","L","a","r","g","e"," ","C","a","p"," ","F","u","n","d"," ","D","i","r","e","c","t"," ","I","D","C","W">>
FundB == <<"U","T","I"," ","L","a","r","g","e"," ","&"," ","M","i","d"," ","C","a","p"," ","F","u","n","d"," ","D","i","r","e","c","t"," ","I","D","C","W">>
UrlA == <<"h","t","t","p","s",":","/","/","g","r","o","w","w",".","i","n","/","a">>
UrlB == <<"h","t","t","p","s",":","/","/","g","r","o","w","w",".","i","n","/","b">>

ExpenseA ==
  Chunk(FundA, UrlA, <<"e","x","p","e","n","s","e","_","i","n","f","o","r","m","a","t","i","o","n">>,
        << Scalar(<<"e","x","p","e","n","s","e","_","r","a","t","i","o">>, <<"0",".","9","1","%">>), Scalar(<<"s","t","a","m","p","_","d","u","t","y">>, <<"0",".","0","0","5","%">>) >>)

ExpenseB ==
  Chunk(FundB, UrlB, <<"e","x","p","e","n","s","e","_","i","n","f","o","r","m","a","t","i","o","n">>,
        << Scalar(<<"e","x","p","e","n","s","e","_","r","a","t","i","o">>, <<"1",".","0","5","%">>) >>)

CharacteristicsA ==
  Chunk(FundA, UrlA, <<"f","u","n","d","_","c","h","a","r","a","c","t","e","r","i","s","t","i","c","s">>,
        << Scalar(<<"f","u","n","d","_","s","i","z","e">>, <<"1","8","1","0","0",".","2","3"," ","C","r">>), Scalar(<<"s","c","h","e","m","e","_","t","y","p","e">>, <<"E","Q","U","I","T","Y">>) >>)

\* the chunks, in the order of their categories in rag_chunks.json
ChunkPool == <<ExpenseA, ExpenseB, CharacteristicsA>>

\* every chunk list of at most MaxChunks chunks that load_and_prepare_data can
\* build: the categories one after the other, the chunks of a category in the
\* order of the file (a chunk may occur twice, as after a second run of a
\* script that appends its chunks)
ChunkLists ==
  LET Picks == UNION {[1..n -> 1..Len(ChunkPool)] : n \in 0..MaxChunks}
      InFileOrder(p) == \A i \in 1..(Len(p) - 1) : p[i] <= p[i + 1]
  IN  {[i \in 1..Len(p) |-> ChunkPool[p[i]]] : p \in {x \in Picks : InFileOrder(x)}}

(***************************************************************************)
(* Questions: at most MaxPhrases phrases, joined by single spaces.         *)
(***************************************************************************)
Phrases ==
  { <<"h","i">>, <<"b","e","s","t">>, <<"h","o","l","d","i","n","g","s">>, <<"e","x","p","e","n","s","e"," ","r","a","t","i","o">>, <<"0"," ","f","u","n","d">>, <<"1"," ","f","u","n","d">>, FundA,
    <<"h","i"," ","b","e","s","t">>, <<"b","e","s","t"," ","h","i">>, <<"e","x","p","e","n","s","e"," ","r","a","t","i","o"," ">> \o FundA }

Questions ==
  {Join(ps, <<" ">>) : ps \in UNION {[1..n -> Phrases] : n \in 0..MaxPhrases}}

\* similarities of a question to the stored vectors, times 100
Scores == {15, 20, 25, 35}

ApiKeys == {<<>>, <<"k","e","y">>}

(***************************************************************************)
(* WebGeminiFAQAssistant.find_relevant_chunks                              *)
(***************************************************************************)
Reverse(a) == [i \in 1..Len(a) |-> a[Len(a) + 1 - i]]

\* the Python slice a[-k:] for k >= 0 (a[-0:] is a[0:], the whole list)
LastK(a, k) ==
  IF k = 0 \/ k >= Len(a) THEN a ELSE SubSeq(a, Len(a) - k + 1, Len(a))

\* the Python slice a[:k]
FirstK(a, k) == IF k >= Len(a) THEN a ELSE SubSeq(a, 1, k)

\* np.argsort(similarities): the indices in ascending order of similarity.
\* The default sort kind is not stable, so the order of equal similarities is
\* any order.
ArgSorts(similarities) ==
  LET n == Len(similarities)
  IN  {p \in [1..n -> 1..n] :
         /\ \A i, j \in 1..n : i # j => p[i] # p[j]
         /\ \A i, j \in 1..n : i < j => similarities[p[i]] <= similarities[p[j]]}

\* sklearn's cosine_similarity validates its inputs and raises ValueError on
\* an array without rows
cosine_similarity_raises(embeddings_count) == embeddings_count = 0

\* whether a similarity passes the relevance test of the loop
PassesThreshold(similarity, threshold) == similarity > threshold

\* the results list: one entry [chunk, similarity] per kept index; idx is the
\* position of the chunk in self.chunks, kept for reference
find_relevant_chunks(chunks, similarities, order, top_k, threshold) ==
  LET top_indices == Reverse(LastK(order, top_k))
      kept == SelectSeq(top_indices,
                        LAMBDA idx : PassesThreshold(similarities[idx], threshold))
  IN  [i \in 1..Len(kept) |->
         [chunk |-> chunks[kept[i]],
          similarity |-> similarities[kept[i]],
          idx |-> kept[i]]]

(***************************************************************************)
(* WebGeminiFAQAssistant.format_context_for_gemini                         *)
(***************************************************************************)
\* the currency sign of the NAV and SIP lines, one character
Rupee == <<"Rs">>

\* str(i) for a small positive integer
DecStr(i) == IF i < 10 THEN <<Digits[i + 1]>> ELSE <<Digits[(i \div 10) + 1], Digits[(i % 10) + 1]>>

\* the chunk types that have a template of their own; each of them renders
\* relevant_chunks[:1] only
TemplateTypes ==
  { <<"e","x","p","e","n","s","e","_","i","n","f","o","r","m","a","t","i","o","n">>, <<"n","a","v","_","s","i","p","_","i","n","f","o","r","m","a","t","i","o","n">>, <<"p","e","r","f","o","r","m","a","n","c","e","_","m","e","t","r","i","c","s">>,
    <<"r","i","s","k","_","i","n","f","o","r","m","a","t","i","o","n">>, <<"f","u","n","d","_","c","h","a","r","a","c","t","e","r","i","s","t","i","c","s">>, <<"h","o","l","d","i","n","g","s","_","i","n","f","o","r","m","a","t","i","o","n">> }

\* the optional line of a scalar field
FieldPart(data, k, label) ==
  IF HasKey(data, k) THEN <<P(label \o Get(data, k).value)>> ELSE <<>>

ExpenseParts(chunk) ==
  <<P(chunk.fund_name)>>
  \o FieldPart(chunk.data, <<"e","x","p","e","n","s","e","_","r","a","t","i","o">>, <<"E","x","p","e","n","s","e"," ","R","a","t","i","o",":"," ">>)
  \o FieldPart(chunk.data, <<"s","t","a","m","p","_","d","u","t","y">>, <<"S","t","a","m","p"," ","D","u","t","y",":"," ">>)
  \o <<P(<<"S","o","u","r","c","e",":"," ">> \o chunk.source_url)>>

NavSipParts(chunk) ==
  LET data == chunk.data
      nav_date == IF HasKey(data, <<"n","a","v","_","d","a","t","e">>) THEN Get(data, <<"n","a","v","_","d","a","t","e">>).value ELSE <<"N","/","A">>
  IN  <<P(chunk.fund_name)>>
      \o (IF HasKey(data, <<"n","a","v">>)
            THEN <<P(<<"N","A","V",":"," ">> \o Rupee \o Get(data, <<"n","a","v">>).value
                     \o <<" ","(","a","s"," ","o","f"," ">> \o nav_date \o <<")">>)>>
            ELSE <<>>)
      \o (IF HasKey(data, <<"m","i","n","_","s","i","p">>)
            THEN <<P(<<"M","i","n","i","m","u","m"," ","S","I","P",":"," ">> \o Rupee \o Get(data, <<"m","i","n","_","s","i","p">>).value)>>
            ELSE <<>>)
      \o (IF HasKey(data, <<"e","x","i","t","_","l","o","a","d">>)
            THEN IF Lower(Get(data, <<"e","x","i","t","_","l","o","a","d">>).value) = <<"n","i","l">>
                   THEN <<P(<<"E","x","i","t"," ","L","o","a","d",":"," ","N","o","n","e">>)>>
                   ELSE <<P(<<"E","x","i","t"," ","L","o","a","d",":"," ">> \o Get(data, <<"e","x","i","t","_","l","o","a","d">>).value)>>
            ELSE <<>>)
      \o <<P(<<"S","o","u","r","c","e",":"," ">> \o chunk.source_url)>>

PerformanceParts(chunk) ==
  <<P(chunk.fund_name)>>
  \o FieldPart(chunk.data, <<"p","e","_","r","a","t","i","o">>, <<"P","/","E"," ","R","a","t","i","o",":"," ">>)
  \o FieldPart(chunk.data, <<"p","b","_","r","a","t","i","o">>, <<"P","/","B"," ","R","a","t","i","o",":"," ">>)
  \o <<P(<<"S","o","u","r","c","e",":"," ">> \o chunk.source_url)>>

RiskParts(chunk) ==
  LET data == chunk.data
      metrics == Get(data, <<"r","i","s","k","_","m","e","t","r","i","c","s">>)
  IN  <<P(chunk.fund_name), P(<<"R","i","s","k"," ","I","n","f","o","r","m","a","t","i","o","n">>)>>
      \o FieldPart(data, <<"r","i","s","k","o","m","e","t","e","r">>, <<"R","i","s","k","o","m","e","t","e","r",":"," ">>)
      \o (IF HasKey(data, <<"r","i","s","k","_","m","e","t","r","i","c","s">>)
            THEN <<NlP(<<"R","i","s","k"," ","M","e","t","r","i","c","s",":">>)>>
                 \o (IF metrics.is_dict
                       THEN [i \in 1..Len(metrics.items) |->
                               P(<<" "," ">> \o Upper(metrics.items[i].key) \o <<":"," ">>
                                 \o metrics.items[i].value)]
                       ELSE <<>>)
            ELSE <<>>)
      \o (IF HasKey(data, <<"b","e","n","c","h","m","a","r","k">>)
            THEN <<NlP(<<"B","e","n","c","h","m","a","r","k",":"," ">> \o Get(data, <<"b","e","n","c","h","m","a","r","k">>).value)>>
            ELSE <<>>)
      \o <<P(<<"S","o","u","r","c","e",":"," ">> \o chunk.source_url)>>

CharacteristicsParts(chunk) ==
  <<P(chunk.fund_name)>>
  \o FieldPart(chunk.data, <<"f","u","n","d","_","s","i","z","e">>, <<"F","u","n","d"," ","S","i","z","e",":"," ">>)
  \o FieldPart(chunk.data, <<"f","u","n","d","_","m","a","n","a","g","e","r">>, <<"F","u","n","d"," ","M","a","n","a","g","e","r",":"," ">>)
  \o FieldPart(chunk.data, <<"s","c","h","e","m","e","_","t","y","p","e">>, <<"S","c","h","e","m","e"," ","T","y","p","e",":"," ">>)
  \o FieldPart(chunk.data, <<"s","u","b","_","c","a","t","e","g","o","r","y">>, <<"C","a","t","e","g","o","r","y",":"," ">>)
  \o FieldPart(chunk.data, <<"l","o","c","k","_","i","n">>, <<"L","o","c","k","-","i","n"," ","P","e","r","i","o","d",":"," ">>)
  \o <<P(<<"S","o","u","r","c","e",":"," ">> \o chunk.source_url)>>

\* top_holdings is a list of {stock, percentage}; an item holds the stock as
\* key and the percentage as value
HoldingsParts(chunk) ==
  LET data == chunk.data
      holdings == Get(data, <<"t","o","p","_","h","o","l","d","i","n","g","s">>).items
  IN  <<P(chunk.fund_name), P(<<"T","o","p"," ","H","o","l","d","i","n","g","s">>)>>
      \o (IF HasKey(data, <<"t","o","p","_","h","o","l","d","i","n","g","s">>)
            THEN [i \in 1..Len(holdings) |->
                    P(holdings[i].key \o <<" ">> \o holdings[i].value)]
            ELSE <<>>)
      \o <<P(<<"S","o","u","r","c","e",":"," ">> \o chunk.source_url)>>

\* the data lines of the default formatting, with the indentation of the
\* caller
DataParts(data, indent) ==
  LET ItemParts(item) ==
        LET formatted_key == Title(ReplaceUnderscore(item.key))
        IN  IF item.is_dict
              THEN <<P(indent \o formatted_key \o <<":">>)>>
                   \o [j \in 1..Len(item.items) |->
                         P(indent \o <<" "," ">> \o Title(item.items[j].key) \o <<":"," ">>
                           \o item.items[j].value)]
              ELSE <<P(indent \o formatted_key \o <<":"," ">> \o item.value)>>
      F[i \in 0..Len(data)] == IF i = 0 THEN <<>> ELSE F[i - 1] \o ItemParts(data[i])
  IN  F[Len(data)]

\* the default formatting: every chunk, numbered
DefaultParts(relevant_chunks) ==
  LET One(i) ==
        LET chunk == relevant_chunks[i].chunk
        IN  <<NlP(DecStr(i) \o <<"."," ","F","u","n","d",":"," ">> \o chunk.fund_name),
              P(<<" "," "," ","C","a","t","e","g","o","r","y",":"," ">> \o Title(ReplaceUnderscore(chunk.chunk_type)))>>
            \o DataParts(chunk.data, <<" "," "," ">>)
            \o <<P(<<" "," "," ","S","o","u","r","c","e",":"," ">> \o chunk.source_url)>>
      F[i \in 0..Len(relevant_chunks)] == IF i = 0 THEN <<>> ELSE F[i - 1] \o One(i)
  IN  <<P(<<"R","e","l","e","v","a","n","t"," ","i","n","f","o","r","m","a","t","i","o","n"," ","a","b","o","u","t"," ","U","T","I"," ","m","u","t","u","a","l"," ","f","u","n","d","s",":">>)>> \o F[Len(relevant_chunks)]

\* the entries of relevant_chunks whose data the context renders
RenderedChunks(relevant_chunks) ==
  IF relevant_chunks = <<>> THEN <<>>
  ELSE IF relevant_chunks[1].chunk.chunk_type \in TemplateTypes
    THEN FirstK(relevant_chunks, 1)
    ELSE relevant_chunks

\* the context, as the lines of the returned string
format_context_for_gemini(relevant_chunks) ==
  IF relevant_chunks = <<>> THEN <<<<"N","o"," ","r","e","l","e","v","a","n","t"," ","i","n","f","o","r","m","a","t","i","o","n"," ","f","o","u","n","d",".">>>>
  ELSE
    LET primary_type == relevant_chunks[1].chunk.chunk_type
        chunk == relevant_chunks[1].chunk
    IN  Lines(CASE primary_type = <<"e","x","p","e","n","s","e","_","i","n","f","o","r","m","a","t","i","o","n">> -> ExpenseParts(chunk)
                [] primary_type = <<"n","a","v","_","s","i","p","_","i","n","f","o","r","m","a","t","i","o","n">> -> NavSipParts(chunk)
                [] primary_type = <<"p","e","r","f","o","r","m","a","n","c","e","_","m","e","t","r","i","c","s">> -> PerformanceParts(chunk)
                [] primary_type = <<"r","i","s","k","_","i","n","f","o","r","m","a","t","i","o","n">> -> RiskParts(chunk)
                [] primary_type = <<"f","u","n","d","_","c","h","a","r","a","c","t","e","r","i","s","t","i","c","s">> -> CharacteristicsParts(chunk)
                [] primary_type = <<"h","o","l","d","i","n","g","s","_","i","n","f","o","r","m","a","t","i","o","n">> -> HoldingsParts(chunk)
                [] OTHER -> DefaultParts(relevant_chunks))

(***************************************************************************)
(* WebGeminiFAQAssistant.generate_gemini_response / generate_basic_response*)
(***************************************************************************)
\* what the REST call to the hosted model can do: return a text, or fail in
\* requests.post, in raise_for_status, in response.json() or in the
\* subscripting of the decoded body
GeminiOutcomes == {"ok", "network_error", "http_error", "malformed_body", "empty_body"}

\* what a successful call returns: some text of the hosted model, or the
\* context echoed back
GeminiReplies == {"free_text", "echo"}

GeminiText(context, llm) ==
  IF llm = "echo" THEN context ELSE <<<<"H","e","r","e"," ","i","s"," ","w","h","a","t"," ","I"," ","k","n","o","w",".">>>>

\* the behaviours of the hosted model for one call
GeminiBehaviours ==
  {[outcome |-> "ok", llm |-> l] : l \in GeminiReplies}
  \cup {[outcome |-> o, llm |-> "free_text"] : o \in GeminiOutcomes \ {"ok"}}

gen_nav_keywords == << <<"n","a","v">>, <<"n","e","t"," ","a","s","s","e","t"," ","v","a","l","u","e">>, <<"c","u","r","r","e","n","t"," ","p","r","i","c","e">> >>
gen_pe_keywords ==
  << <<"p","/","e">>, <<"p","e"," ","r","a","t","i","o">>, <<"p","/","b">>, <<"p","b"," ","r","a","t","i","o">>, <<"p","r","i","c","e"," ","t","o"," ","e","a","r","n","i","n","g","s">>, <<"p","r","i","c","e"," ","t","o"," ","b","o","o","k">> >>
gen_risk_keywords == << <<"r","i","s","k">>, <<"r","i","s","k","o","m","e","t","e","r">>, <<"a","l","p","h","a">>, <<"b","e","t","a">>, <<"s","h","a","r","p","e">>, <<"s","o","r","t","i","n","o">> >>
gen_characteristics_keywords == << <<"f","u","n","d"," ","s","i","z","e">>, <<"f","u","n","d"," ","m","a","n","a","g","e","r">>, <<"c","a","t","e","g","o","r","y">>, <<"s","c","h","e","m","e"," ","t","y","p","e">> >>

\* which of the three prompt templates the question selects
PromptTemplate(question) ==
  LET q_lower == Lower(question)
  IN  IF AnyIn(gen_nav_keywords, q_lower) THEN "nav"
      ELSE IF \/ AnyIn(gen_pe_keywords, q_lower)
              \/ AnyIn(gen_risk_keywords, q_lower)
              \/ AnyIn(gen_characteristics_keywords, q_lower) THEN "metrics"
      ELSE "general"

\* f"Based on the information I found:\n\n{context}"
generate_basic_response(context) ==
  << <<"B","a","s","e","d"," ","o","n"," ","t","h","e"," ","i","n","f","o","r","m","a","t","i","o","n"," ","I"," ","f","o","u","n","d",":">>, <<>> >> \o context

\* outcome and llm are the behaviour of the hosted model for this call; every
\* failure is caught by the except clause of line 390
generate_gemini_response(api_key, context, outcome, llm) ==
  IF api_key = <<>> THEN generate_basic_response(context)
  ELSE IF outcome = "ok" THEN GeminiText(context, llm)
  ELSE generate_basic_response(context)

(***************************************************************************)
(* WebGeminiFAQAssistant.answer_question                                   *)
(***************************************************************************)
ReferenceUrl == <<"h","t","t","p","s",":","/","/","g","r","o","w","w",".","i","n","/","m","u","t","u","a","l","-","f","u","n","d","s","/","a","m","c","/","u","t","i","-","m","u","t","u","a","l","-","f","u","n","d","s">>

GreetingText ==
  << <<"H","e","l","l","o","!"," ","I","'","m"," ","y","o","u","r"," ","U","T","I"," ","M","u","t","u","a","l"," ","F","u","n","d"," ","A","s","s","i","s","t","a","n","t","."," ","I"," ","c","a","n"," ","h","e","l","p"," ","y","o","u"," ","e","x","p","l","o","r","e"," ","a","n","d"," ","l","e","a","r","n"," ","m","o","r","e"," ","a","b","o","u","t"," ","U","T","I","'","s"," ","m","u","t","u","a","l"," ","f","u","n","d"," ","o","f","f","e","r","i","n","g","s","."," ","F","e","e","l"," ","f","r","e","e"," ","t","o"," ","a","s","k"," ","m","e"," ","a","b","o","u","t"," ","f","u","n","d"," ","d","e","t","a","i","l","s",","," ","p","e","r","f","o","r","m","a","n","c","e"," ","m","e","t","r","i","c","s",","," ","e","x","p","e","n","s","e","s",","," ","r","i","s","k"," ","i","n","f","o","r","m","a","t","i","o","n",","," ","a","n","d"," ","m","o","r","e","."," ","O","r"," ","v","i","s","i","t"," ","G","r","o","w","w"," ","t","o"," ","e","x","p","l","o","r","e"," ","a","l","l"," ","a","v","a","i","l","a","b","l","e"," ","f","u","n","d","s",":"," ","h","t","t","p","s",":","/","/","g","r","o","w","w",".","i","n","/","m","u","t","u","a","l","-","f","u","n","d","s","/","a","m","c","/","u","t","i","-","m","u","t","u","a","l","-","f","u","n","d","s">> >>

RefusalText ==
  << <<"T","h","i","s"," ","a","s","s","i","s","t","a","n","t"," ","i","s"," ","d","e","s","i","g","n","e","d"," ","t","o"," ","p","r","o","v","i","d","e"," ","f","a","c","t","u","a","l"," ","i","n","f","o","r","m","a","t","i","o","n"," ","a","b","o","u","t"," ","U","T","I"," ","M","u","t","u","a","l"," ","F","u","n","d","s"," ","o","n","l","y","."," ","I","t"," ","d","o","e","s"," ","n","o","t"," ","p","r","o","v","i","d","e"," ","i","n","v","e","s","t","m","e","n","t"," ","a","d","v","i","c","e",".">>,
     <<>>,
     <<"V","i","s","i","t"," ","G","r","o","w","w"," ","t","o"," ","k","n","o","w"," ","m","o","r","e",".">> >>

GeneralText ==
  << <<"I"," ","d","o","n","'","t"," ","h","a","v","e"," ","t","h","i","s"," ","i","n","f","o","r","m","a","t","i","o","n"," ","i","n"," ","m","y"," ","c","u","r","r","e","n","t"," ","d","a","t","a","b","a","s","e","."," ","P","l","e","a","s","e"," ","v","i","s","i","t"," ","G","r","o","w","w"," ","(","h","t","t","p","s",":","/","/","g","r","o","w","w",".","i","n","/","m","u","t","u","a","l","-","f","u","n","d","s","/","a","m","c","/","u","t","i","-","m","u","t","u","a","l","-","f","u","n","d","s",")"," ","t","o"," ","k","n","o","w"," ","m","o","r","e"," ","a","b","o","u","t"," ","m","u","t","u","a","l"," ","f","u","n","d"," ","t","e","r","m","s"," ","a","n","d"," ","i","n","d","i","c","a","t","o","r","s",".">> >>

Source(f, u, t) == [fund_name |-> f, url |-> u, type |-> t]

GreetingSources == << Source(<<"G","r","o","w","w"," ","-"," ","U","T","I"," ","M","u","t","u","a","l"," ","F","u","n","d","s">>, ReferenceUrl, <<"r","e","f","e","r","e","n","c","e">>) >>
RefusalSources == << Source(<<"G","r","o","w","w"," ","P","l","a","t","f","o","r","m">>, ReferenceUrl, <<"r","e","f","e","r","e","n","c","e">>) >>

\* any(q == k or q.startswith(k + ' ') for k in greeting_keywords)
IsGreeting(q) ==
  \E n \in 1..Len(greeting_keywords) :
    q = greeting_keywords[n] \/ StartsWith(q, greeting_keywords[n] \o <<" ">>)

is_holdings_query(q) == AnyIn(holdings_keywords, q)

\* the guardrail with an advice list that lacks its later keywords
IsBlocked_ShortList(q) ==
  ~is_holdings_query(q) /\ AnyIn(SubSeq(advice_keywords, 1, 13), q)

\* the guardrail test of line 436
IsBlocked(q) == ~is_holdings_query(q) /\ AnyIn(advice_keywords, q)

\* re.search(r'(\d+)\s+fund', q): the leftmost position from which a run of
\* digits, a run of whitespace and the word follow one another; the group is
\* the run of digits
NumberMatchAt(q, i) ==
  /\ i \in 1..Len(q)
  /\ IsDigit(q[i])
  /\ LET nondigit == {j \in i..Len(q) : ~IsDigit(q[j])}
     IN  /\ nondigit # {}
         /\ LET d == CHOOSE j \in nondigit : \A m \in nondigit : j <= m
                nonspace == {j \in d..Len(q) : ~IsSpace(q[j])}
            IN  /\ IsSpace(q[d])
                /\ nonspace # {}
                /\ MatchesAt(q, <<"f","u","n","d">>, CHOOSE j \in nonspace : \A m \in nonspace : j <= m)

NumberGroup(q, i) ==
  LET nondigit == {j \in i..Len(q) : ~IsDigit(q[j])}
      d == CHOOSE j \in nondigit : \A m \in nondigit : j <= m
  IN  SubSeq(q, i, d - 1)

\* top_k = int(group) if the pattern matches, else 10; capped at 15
TopKOf(q) ==
  LET starts == {i \in 1..Len(q) : NumberMatchAt(q, i)}
      top_k == IF starts = {} THEN DefaultTopK
               ELSE IntOf(NumberGroup(q, CHOOSE i \in starts : \A j \in starts : i <= j))
  IN  Min(top_k, TopKCap)

\* the fund names of the chunks, and what the code derives from a name alone,
\* tabulated
FundNames == {ChunkPool[i].fund_name : i \in 1..Len(ChunkPool)}

\* fund_name.lower()
LowerName == [f \in FundNames |-> Lower(f)]

\* the words of a fund name that count for the match
FundWords(fund_name_lower) ==
  SelectSeq(Split(fund_name_lower), LAMBDA w : Len(w) > SignificantLen)

fund_words == [f \in FundNames |-> FundWords(LowerName[f])]

\* sum(1 for word in fund_words if word in q)
MatchingWords(q, f) ==
  Cardinality({i \in 1..Len(fund_words[f]) : Contains(q, fund_words[f][i])})

\* the loop of lines 484-501: the lower-case name of the fund whose share of
\* matched words is above one half and the highest so far (<<>> for None).
\* A score is kept as the fraction num/den; in.matching_words is
\* MatchingWords(q, _), tabulated.
MentionedFund(relevant_chunks, in) ==
  LET Step(acc, entry) ==
        LET f == entry.chunk.fund_name
            matching_words == in.matching_words[f]
        IN  IF /\ Len(fund_words[f]) > 0
               /\ 2 * matching_words > Len(fund_words[f])
               /\ matching_words * acc.den > acc.num * Len(fund_words[f])
              THEN [num |-> matching_words, den |-> Len(fund_words[f]),
                    fund |-> LowerName[f]]
              ELSE acc
      F[i \in 0..Len(relevant_chunks)] ==
        IF i = 0 THEN [num |-> 0, den |-> 1, fund |-> <<>>]
        ELSE Step(F[i - 1], relevant_chunks[i])
  IN  F[Len(relevant_chunks)].fund

\* the chunks of the mentioned fund only
NarrowToFund(relevant_chunks, mentioned_fund) ==
  IF mentioned_fund # <<>>
    THEN SelectSeq(relevant_chunks,
                   LAMBDA c : LowerName[c.chunk.fund_name] = mentioned_fund)
    ELSE relevant_chunks

\* the first chunk of the wanted type, or else the first chunk
FilterByType_Typed(relevant_chunks, chunk_type) ==
  FirstK(SelectSeq(relevant_chunks, LAMBDA c : c.chunk.chunk_type = chunk_type), 1)
FilterByType(relevant_chunks, chunk_type) ==
  LET typed == SelectSeq(relevant_chunks, LAMBDA c : c.chunk.chunk_type = chunk_type)
  IN  IF typed # <<>> THEN FirstK(typed, 1) ELSE FirstK(relevant_chunks, 1)

\* lines 404-477: everything answer_question derives from the question alone
\* before it retrieves
Intent(question) ==
  LET q == Strip(Lower(question))
  IN  [question |-> question,
       q |-> q,
       greeting |-> IsGreeting(q),
       blocked |-> IsBlocked(q),
       top_k |-> TopKOf(q),
       asking_about_nav |-> AnyIn(nav_keywords, q),
       asking_about_performance |-> AnyIn(pe_keywords, q),
       asking_about_expense |-> AnyIn(expense_keywords, q),
       asking_about_characteristics |-> AnyIn(characteristics_keywords, q),
       asking_about_risk |-> AnyIn(risk_keywords, q),
       asking_about_holdings |-> AnyIn(holdings_intent_keywords, q),
       general |-> AnyIn(general_keywords, q),
       matching_words |-> [f \in FundNames |-> MatchingWords(q, f)],
       names |-> [f \in FundNames |-> Contains(Lower(question), LowerName[f])],
       prompt |-> PromptTemplate(question)]

\* the if/elif chain of lines 509-563
FilterByIntent_NavFirst(relevant_chunks, in, mentioned_fund) ==
  IF in.asking_about_nav
    THEN FilterByType(relevant_chunks, <<"n","a","v","_","s","i","p","_","i","n","f","o","r","m","a","t","i","o","n">>)
  ELSE IF in.asking_about_characteristics
    THEN FilterByType(relevant_chunks, <<"f","u","n","d","_","c","h","a","r","a","c","t","e","r","i","s","t","i","c","s">>)
  ELSE IF in.asking_about_expense
    THEN FilterByType(relevant_chunks, <<"e","x","p","e","n","s","e","_","i","n","f","o","r","m","a","t","i","o","n">>)
  ELSE IF in.asking_about_performance
    THEN FilterByType(relevant_chunks, <<"p","e","r","f","o","r","m","a","n","c","e","_","m","e","t","r","i","c","s">>)
  ELSE IF in.asking_about_risk
    THEN FilterByType(relevant_chunks, <<"r","i","s","k","_","i","n","f","o","r","m","a","t","i","o","n">>)
  ELSE IF in.asking_about_holdings
    THEN FilterByType(relevant_chunks, <<"h","o","l","d","i","n","g","s","_","i","n","f","o","r","m","a","t","i","o","n">>)
  ELSE IF mentioned_fund # <<>>
    THEN FirstK(relevant_chunks, 3)
  ELSE relevant_chunks
FilterByIntent(relevant_chunks, in, mentioned_fund) ==
  IF in.asking_about_characteristics
    THEN FilterByType(relevant_chunks, <<"f","u","n","d","_","c","h","a","r","a","c","t","e","r","i","s","t","i","c","s">>)
  ELSE IF in.asking_about_nav
    THEN FilterByType(relevant_chunks, <<"n","a","v","_","s","i","p","_","i","n","f","o","r","m","a","t","i","o","n">>)
  ELSE IF in.asking_about_expense
    THEN FilterByType(relevant_chunks, <<"e","x","p","e","n","s","e","_","i","n","f","o","r","m","a","t","i","o","n">>)
  ELSE IF in.asking_about_performance
    THEN FilterByType(relevant_chunks, <<"p","e","r","f","o","r","m","a","n","c","e","_","m","e","t","r","i","c","s">>)
  ELSE IF in.asking_about_risk
    THEN FilterByType(relevant_chunks, <<"r","i","s","k","_","i","n","f","o","r","m","a","t","i","o","n">>)
  ELSE IF in.asking_about_holdings
    THEN FilterByType(relevant_chunks, <<"h","o","l","d","i","n","g","s","_","i","n","f","o","r","m","a","t","i","o","n">>)
  ELSE IF mentioned_fund # <<>>
    THEN FirstK(relevant_chunks, 3)
  ELSE relevant_chunks

\* the test of lines 567-571
IsGeneralQuery(relevant_chunks, in) ==
  /\ \/ relevant_chunks = <<>>
     \/ relevant_chunks[1].similarity < LowSimilarity
  /\ in.general

SourceOf(entry) ==
  Source(entry.chunk.fund_name, entry.chunk.source_url, entry.chunk.chunk_type)

\* the sources of lines 593-623; in.names[f] is
\* `f.lower() in question.lower()`, tabulated
FormatSources(relevant_chunks, in) ==
  LET named == SelectSeq(relevant_chunks, LAMBDA r : in.names[r.chunk.fund_name])
      mentioned_funds == [i \in 1..Len(named) |-> LowerName[named[i].chunk.fund_name]]
      listed == IF mentioned_funds # <<>>
                  THEN SelectSeq(relevant_chunks,
                         LAMBDA r : \E i \in 1..Len(mentioned_funds) :
                                      LowerName[r.chunk.fund_name] = mentioned_funds[i])
                  ELSE relevant_chunks
  IN  [i \in 1..Len(listed) |-> SourceOf(listed[i])]

\* the entry appended to conversation_history; its timestamp, question,
\* response text and chunks_found, which no operation reads, are left out
HistoryEntry(api_key) == [used_llm |-> api_key # <<>>]

\* What one call does, as a record:
\*   path        which return statement is reached ("raise" when an
\*               exception leaves the method)
\*   response, sources   the returned dict (response as lines)
\*   logged, entry       whether conversation_history was appended to
\* and, for reference, the intermediate values of the call.
NoAnswer ==
  [path |-> "none", question |-> <<>>, q |-> <<>>, response |-> <<>>, sources |-> <<>>,
   logged |-> FALSE, entry |-> HistoryEntry(<<>>),
   top_k |-> -1, find_called |-> FALSE, similarities |-> <<>>, retrieved |-> <<>>,
   mentioned_fund |-> <<>>, relevant_chunks |-> <<>>, context |-> <<>>,
   generation |-> "not_called"]

\* lines 404-582: the call up to the point where the context is formatted;
\* path is "retrieved" when the call goes on to format and respond.
\* `in` is Intent(question).
Retrieved(in, chunks, similarities, order) ==
  LET base == [NoAnswer EXCEPT !.question = in.question, !.q = in.q]
  IN
  IF in.greeting
    THEN [base EXCEPT !.path = "greeting", !.response = GreetingText,
                      !.sources = GreetingSources]
  ELSE IF in.blocked
    THEN [base EXCEPT !.path = "refusal", !.response = RefusalText,
                      !.sources = RefusalSources]
  ELSE
    LET called == [base EXCEPT !.top_k = in.top_k, !.find_called = TRUE,
                               !.similarities = similarities]
    IN
    IF cosine_similarity_raises(Len(chunks))
      THEN [called EXCEPT !.path = "raise"]
    ELSE
      LET retrieved == find_relevant_chunks(chunks, similarities, order, in.top_k, Threshold)
          mentioned_fund == MentionedFund(retrieved, in)
          narrowed == NarrowToFund(retrieved, mentioned_fund)
          relevant_chunks == FilterByIntent(narrowed, in, mentioned_fund)
          found == [called EXCEPT !.retrieved = retrieved,
                                  !.mentioned_fund = mentioned_fund,
                                  !.relevant_chunks = relevant_chunks]
      IN
      IF IsGeneralQuery(relevant_chunks, in)
        THEN [found EXCEPT !.path = "general", !.response = GeneralText,
                           !.sources = GreetingSources]
        ELSE [found EXCEPT !.path = "retrieved"]

\* lines 584-637: format the context, generate the response, list the sources
\* and log the interaction
Respond(found, in, api_key, outcome, llm) ==
  IF found.path # "retrieved" THEN found
  ELSE
    LET relevant_chunks == found.relevant_chunks
        context == format_context_for_gemini(relevant_chunks)
        response_text ==
          IF api_key # <<>>
            THEN generate_gemini_response(api_key, context, outcome, llm)
            ELSE generate_basic_response(context)
    IN  [found EXCEPT
           !.path = "answer",
           !.context = context,
           !.generation = IF api_key = <<>> THEN "no_key"
                          ELSE IF outcome = "ok" THEN "ok" ELSE "failed",
           !.response = response_text,
           !.sources = FormatSources(relevant_chunks, in),
           !.logged = TRUE,
           !.entry = HistoryEntry(api_key)]

answer_question(in, chunks, api_key, similarities, order, outcome, llm) ==
  Respond(Retrieved(in, chunks, similarities, order), in, api_key, outcome, llm)

(***************************************************************************)
(* The web shell of scripts/gemini_web_chatbot.py: the global assistant    *)
(* and the routes /init, /ask and /history.                                *)
(***************************************************************************)
\* os.environ.get('GOOGLE_API_KEY'): the variable is not set in the
\* environment of the server
GOOGLE_API_KEY == <<>>

\* WebGeminiFAQAssistant(api_key=api_key): __init__ and load_and_prepare_data
NewAssistant_KeepsHistory(api_key, file_chunks) ==
  [chunks |-> file_chunks,
   api_key |-> IF api_key # <<>> THEN api_key ELSE GOOGLE_API_KEY,
   conversation_history |-> IF assistant = None THEN <<>>
                            ELSE assistant.conversation_history]
NewAssistant(api_key, file_chunks) ==
  [chunks |-> file_chunks,
   api_key |-> IF api_key # <<>> THEN api_key ELSE GOOGLE_API_KEY,
   conversation_history |-> <<>>]

\* A request body, as request.get_json() sees it: the JSON literal null
\* (get_json returns None), a body get_json rejects with an exception, or an
\* object.  A key the object lacks reads as '' (data.get(key, '')), like a
\* key that holds ''.
NullBody == [kind |-> "null", value |-> <<>>]
InvalidBody == [kind |-> "invalid", value |-> <<>>]
Object(v) == [kind |-> "object", value |-> v]

InitBodies == {NullBody, InvalidBody} \cup {Object(k) : k \in ApiKeys}
AskBodies == {NullBody, InvalidBody} \cup {Object(question) : question \in Questions}

NoReply == [route |-> "none", status |-> 0, error |-> "", answer |-> NoAnswer,
            history |-> <<>>]

HistoryLen == IF assistant = None THEN 0 ELSE Len(assistant.conversation_history)

\* the client sends a request when none is being served
SendInit(body) ==
  /\ request = None /\ reply = None
  /\ UNCHANGED <<files_vars, db_vars>>
  /\ request' = [route |-> "/init", body |-> body]
  /\ UNCHANGED <<rag_chunks, assistant, reply>>

SendAsk(body) ==
  /\ request = None /\ reply = None
  /\ UNCHANGED <<files_vars, db_vars>>
  /\ HistoryLen < MaxHistory
  /\ request' = [route |-> "/ask", body |-> body]
  /\ UNCHANGED <<rag_chunks, assistant, reply>>

SendHistory ==
  /\ request = None /\ reply = None
  /\ UNCHANGED <<files_vars, db_vars>>
  /\ request' = [route |-> "/history", body |-> NullBody]
  /\ UNCHANGED <<rag_chunks, assistant, reply>>

\* the client takes the reply
Receive ==
  /\ reply # None
  /\ UNCHANGED <<files_vars, db_vars>>
  /\ reply' = None
  /\ UNCHANGED <<rag_chunks, assistant, request>>

\* POST /init
initialize_assistant ==
  /\ request # None /\ request.route = "/init"
  /\ UNCHANGED <<files_vars, db_vars>>
  /\ request' = None
  /\ LET body == request.body
     IN  IF body.kind = "invalid"
           THEN /\ reply' = [NoReply EXCEPT !.route = "/init", !.status = 500,
                                            !.error = "exception"]
                /\ UNCHANGED assistant
         ELSE IF body.kind = "null"
           THEN /\ reply' = [NoReply EXCEPT !.route = "/init", !.status = 400,
                                            !.error = "Invalid JSON data"]
                /\ UNCHANGED assistant
         ELSE /\ assistant' = NewAssistant(
                     IF Strip(body.value) # <<>> THEN Strip(body.value) ELSE GOOGLE_API_KEY,
                     rag_chunks)
              /\ reply' = [NoReply EXCEPT !.route = "/init", !.status = 200]
  /\ UNCHANGED rag_chunks

\* Intent of every question the client can send, tabulated
IntentOf == [question \in {Strip(v) : v \in Questions} |-> Intent(question)]

\* The inputs answer_question draws on besides the question: the vector of
\* similarities, the order np.argsort returns and the behaviour of the hosted
\* model.  A call that returns before it retrieves depends on none of them,
\* and a call without API key does not reach the hosted model.
SimilarityChoices(in, chunks) ==
  IF in.greeting \/ in.blocked THEN {<<>>} ELSE [1..Len(chunks) -> Scores]

OrderChoices(in, similarities) ==
  IF in.greeting \/ in.blocked THEN {<<>>} ELSE ArgSorts(similarities)

GeminiChoices(found, api_key) ==
  IF found.path # "retrieved" \/ api_key = <<>>
    THEN {[outcome |-> "ok", llm |-> "free_text"]}
    ELSE GeminiBehaviours

\* POST /ask
ask_question ==
  /\ request # None /\ request.route = "/ask"
  /\ UNCHANGED <<files_vars, db_vars>>
  /\ request' = None
  /\ \E current \in {IF assistant = None
                        THEN NewAssistant(GOOGLE_API_KEY, rag_chunks)
                        ELSE assistant} :
       IF request.body.kind # "object"
         THEN /\ reply' = [NoReply EXCEPT !.route = "/ask", !.status = 500,
                                          !.error = "exception"]
              /\ assistant' = current
       ELSE IF Strip(request.body.value) = <<>>
         THEN /\ reply' = [NoReply EXCEPT !.route = "/ask", !.status = 400,
                                          !.error = "No question provided"]
              /\ assistant' = current
       ELSE \E in \in {IntentOf[Strip(request.body.value)]} :
            \E similarities \in SimilarityChoices(in, current.chunks) :
            \E order \in OrderChoices(in, similarities) :
            \E found \in {Retrieved(in, current.chunks, similarities, order)} :
            \E gemini \in GeminiChoices(found, current.api_key) :
            \E answer \in {Respond(found, in, current.api_key,
                                    gemini.outcome, gemini.llm)} :
              IF answer.path = "raise"
                THEN /\ reply' = [NoReply EXCEPT !.route = "/ask", !.status = 500,
                                                 !.error = "exception",
                                                 !.answer = answer]
                     /\ assistant' = current
                ELSE /\ reply' = [NoReply EXCEPT !.route = "/ask", !.status = 200,
                                                 !.answer = answer]
                     /\ assistant' =
                          IF answer.logged
                            THEN [current EXCEPT !.conversation_history =
                                                    Append(@, answer.entry)]
                            ELSE current
  /\ UNCHANGED rag_chunks

\* GET /history
get_history ==
  /\ request # None /\ request.route = "/history"
  /\ UNCHANGED <<files_vars, db_vars>>
  /\ request' = None
  /\ reply' = [NoReply EXCEPT !.route = "/history", !.status = 200,
                              !.history = IF assistant = None THEN <<>>
                                          ELSE assistant.conversation_history]
  /\ UNCHANGED <<rag_chunks, assistant>>

\* the web shell neither writes the data files nor the database: the
\* variables of the other programs stay unset
Init ==
  /\ rag_chunks \in ChunkLists
  /\ assistant = None
  /\ request = None
  /\ reply = None
  /\ files = None /\ process = None
  /\ db = None /\ scrape = None

Next ==
  \/ \E body \in InitBodies : SendInit(body)
  \/ \E body \in AskBodies : SendAsk(body)
  \/ SendHistory
  \/ Receive
  \/ initialize_assistant
  \/ ask_question
  \/ get_history

Spec == Init /\ [][Next]_vars

(***************************************************************************)
(* scripts/robust_gemini_web_chatbot.py: WebRobustGeminiFAQAssistant and   *)
(* its routes.  The client actions are those of the first shell.           *)
(***************************************************************************)
\* similarities around the threshold of this variant
RobustScores == {5, 10, 35}

\* format_context_for_llm: the numbered formatting of every chunk
format_context_for_llm(relevant_chunks) ==
  IF relevant_chunks = <<>> THEN <<<<"N","o"," ","r","e","l","e","v","a","n","t"," ","i","n","f","o","r","m","a","t","i","o","n"," ","f","o","u","n","d",".">>>>
  ELSE Lines(DefaultParts(relevant_chunks))

\* generate_basic_response of this variant: a context of more than ten lines
\* is cut to its first ten lines and a closing line
robust_generate_basic_response(context) ==
  LET lines == context
      context_summary ==
        IF Len(lines) > RobustMaxLines
          THEN FirstK(lines, RobustMaxLines) \o <<<<".",".","."," ","(","m","o","r","e"," ","i","n","f","o","r","m","a","t","i","o","n"," ","a","v","a","i","l","a","b","l","e",")">>>>
          ELSE context
  IN  << <<"B","a","s","e","d"," ","o","n"," ","t","h","e"," ","i","n","f","o","r","m","a","t","i","o","n"," ","I"," ","f","o","u","n","d",":">>, <<>> >> \o context_summary

\* generate_gemini_response of this variant; has_model is
\* `self.gemini_model is not None`, and every failure of generate_content or
\* of response.text is caught by the outer except clause
robust_generate_gemini_response(has_model, context, outcome, llm) ==
  IF ~has_model THEN robust_generate_basic_response(context)
  ELSE IF outcome = "ok" THEN GeminiText(context, llm)
  ELSE robust_generate_basic_response(context)

\* WebRobustGeminiFAQAssistant.answer_question
robust_answer_question(question, chunks, api_key, has_model, similarities, order, outcome, llm) ==
  LET called == [NoAnswer EXCEPT !.question = question, !.q = question,
                                 !.top_k = RobustTopK, !.find_called = TRUE,
                                 !.similarities = similarities]
  IN
  IF cosine_similarity_raises(Len(chunks))
    THEN [called EXCEPT !.path = "raise"]
  ELSE
    LET relevant_chunks ==
          find_relevant_chunks(chunks, similarities, order, RobustTopK, RobustThreshold)
        context == format_context_for_llm(relevant_chunks)
        use_llm == has_model /\ api_key # <<>>
        response_text ==
          IF use_llm
            THEN robust_generate_gemini_response(has_model, context, outcome, llm)
            ELSE robust_generate_basic_response(context)
    IN  [called EXCEPT
           !.path = "answer",
           !.retrieved = relevant_chunks,
           !.relevant_chunks = relevant_chunks,
           !.context = context,
           !.generation = IF ~use_llm THEN "no_key"
                          ELSE IF outcome = "ok" THEN "ok" ELSE "failed",
           !.response = response_text,
           !.sources = [i \in 1..Len(relevant_chunks) |-> SourceOf(relevant_chunks[i])],
           !.logged = TRUE,
           !.entry = HistoryEntry(IF use_llm THEN api_key ELSE <<>>)]

\* WebRobustGeminiFAQAssistant(api_key=api_key).  has_model tells whether
\* the google.generativeai library was imported and a model was created.
NewRobustAssistant(api_key, has_model, file_chunks) ==
  [chunks |-> file_chunks,
   api_key |-> api_key,
   gemini_model |-> has_model,
   conversation_history |-> <<>>]

\* POST /init.  The module does not import os, so __init__ raises NameError
\* when it evaluates `api_key or os.environ.get(...)` with an empty api_key.
robust_initialize_assistant ==
  /\ request # None /\ request.route = "/init"
  /\ UNCHANGED <<files_vars, db_vars>>
  /\ request' = None
  /\ LET body == request.body
     IN  IF body.kind = "invalid"
           THEN /\ reply' = [NoReply EXCEPT !.route = "/init", !.status = 500,
                                            !.error = "exception"]
                /\ UNCHANGED assistant
         ELSE IF body.kind = "null"
           THEN /\ reply' = [NoReply EXCEPT !.route = "/init", !.status = 400,
                                            !.error = "Invalid JSON data"]
                /\ UNCHANGED assistant
         ELSE IF (IF Strip(body.value) # <<>> THEN Strip(body.value) ELSE GOOGLE_API_KEY) = <<>>
           THEN /\ reply' = [NoReply EXCEPT !.route = "/init", !.status = 500,
                                            !.error = "exception"]
                /\ UNCHANGED assistant
         ELSE \E has_model \in BOOLEAN :
                /\ assistant' = NewRobustAssistant(Strip(body.value), has_model, rag_chunks)
                /\ reply' = [NoReply EXCEPT !.route = "/init", !.status = 200]
  /\ UNCHANGED rag_chunks

RobustGeminiChoices(a) ==
  IF a.gemini_model /\ a.api_key # <<>>
    THEN GeminiBehaviours
    ELSE {[outcome |-> "ok", llm |-> "free_text"]}

\* POST /ask
robust_ask_question ==
  /\ request # None /\ request.route = "/ask"
  /\ UNCHANGED <<files_vars, db_vars>>
  /\ request' = None
  /\ IF assistant = None
       THEN /\ reply' = [NoReply EXCEPT !.route = "/ask", !.status = 400,
                                        !.error = "Assistant not initialized"]
            /\ UNCHANGED assistant
     ELSE IF request.body.kind # "object"
       THEN /\ reply' = [NoReply EXCEPT !.route = "/ask", !.status = 500,
                                        !.error = "exception"]
            /\ UNCHANGED assistant
     ELSE IF Strip(request.body.value) = <<>>
       THEN /\ reply' = [NoReply EXCEPT !.route = "/ask", !.status = 400,
                                        !.error = "No question provided"]
            /\ UNCHANGED assistant
     ELSE \E similarities \in [1..Len(assistant.chunks) -> RobustScores] :
          \E order \in ArgSorts(similarities) :
          \E gemini \in RobustGeminiChoices(assistant) :
          \E answer \in {robust_answer_question(
                           Strip(request.body.value), assistant.chunks,
                           assistant.api_key, assistant.gemini_model,
                           similarities, order, gemini.outcome, gemini.llm)} :
            IF answer.path = "raise"
              THEN /\ reply' = [NoReply EXCEPT !.route = "/ask", !.status = 500,
                                               !.error = "exception",
                                               !.answer = answer]
                   /\ UNCHANGED assistant
              ELSE /\ reply' = [NoReply EXCEPT !.route = "/ask", !.status = 200,
                                               !.answer = answer]
                   /\ assistant' = [assistant EXCEPT !.conversation_history =
                                                        Append(@, answer.entry)]
  /\ UNCHANGED rag_chunks

\* GET /history
robust_get_history ==
  /\ request # None /\ request.route = "/history"
  /\ UNCHANGED <<files_vars, db_vars>>
  /\ request' = None
  /\ reply' = [NoReply EXCEPT !.route = "/history", !.status = 200,
                              !.history = IF assistant = None THEN <<>>
                                          ELSE assistant.conversation_history]
  /\ UNCHANGED <<rag_chunks, assistant>>

NextRobust ==
  \/ \E body \in InitBodies : SendInit(body)
  \/ \E body \in AskBodies : SendAsk(body)
  \/ SendHistory
  \/ Receive
  \/ robust_initialize_assistant
  \/ robust_ask_question
  \/ robust_get_history

SpecRobust == Init /\ [][NextRobust]_vars


(***************************************************************************)
(* The data files of the retrieval engine, their writers, and a chatbot    *)
(* process that loads them.                                                *)
(*                                                                         *)
(* rag_chunks.json is an ordered mapping from category to a list of        *)
(* chunks, kept as a sequence of entries [category, chunks] in key order.  *)
(* The data of a chunk is the set of its field names.  A vector is         *)
(* identified by the text it embeds.                                       *)
(***************************************************************************)
MaxFileChunks == 5

FileChunk(fund, type, data) ==
  [fund_name |-> fund, chunk_type |-> type, data |-> data, data_source |-> "db"]

\* for category_chunks in data.values(): chunks.extend(category_chunks)
RECURSIVE Flatten(_)
Flatten(data) == IF data = <<>> THEN <<>> ELSE Head(data).chunks \o Flatten(Tail(data))

HasCategory(data, category) == \E i \in 1..Len(data) : data[i].category = category

\* data[category]
CategoryChunks(data, category) ==
  data[CHOOSE i \in 1..Len(data) : data[i].category = category].chunks

\* data[category] = chunks: an existing key keeps its position, a new key
\* goes last
SetCategory(data, category, chunks) ==
  IF HasCategory(data, category)
  THEN [i \in 1..Len(data) |->
          IF data[i].category = category
          THEN [category |-> category, chunks |-> chunks] ELSE data[i]]
  ELSE Append(data, [category |-> category, chunks |-> chunks])

\* the chunk file prepare_rag_chunks writes for the schemes of the database;
\* every scheme of the model has expense and characteristics data
prepare_rag_chunks(schemes) ==
  << [category |-> "expense_information",
      chunks |-> [i \in 1..Len(schemes) |->
                    FileChunk(schemes[i], "expense_information", {"expense_ratio", "min_sip"})]],
     [category |-> "fund_characteristics",
      chunks |-> [i \in 1..Len(schemes) |->
                    FileChunk(schemes[i], "fund_characteristics", {"fund_size"})]] >>

\* the fund of new_fund_data
NewFund == "N"

\* add_fund_chunks.py appends a chunk for each new fund to three categories
add_fund_chunks(data) ==
  LET Added(d, category, fields) ==
        SetCategory(d, category,
                    (IF HasCategory(d, category) THEN CategoryChunks(d, category) ELSE <<>>)
                      \o <<FileChunk(NewFund, category, fields)>>)
  IN  Added(Added(Added(data, "performance_metrics", {"pe_ratio"}),
                  "fund_characteristics", {"fund_size"}),
            "risk_information", {"riskometer"})

NavSipFields == {"nav", "nav_date", "min_sip", "exit_load"}
ExpenseFields == {"expense_ratio", "stamp_duty"}

\* split_expense_chunks.py: each expense chunk gives a nav_sip chunk and an
\* expense chunk, each only if it has data
split_expense_chunks(data) ==
  LET old == CategoryChunks(data, "expense_information")
      Part(type, fields) ==
        LET with == SelectSeq(old, LAMBDA c : c.data \cap fields # {})
        IN  [i \in 1..Len(with) |->
               [fund_name |-> with[i].fund_name, chunk_type |-> type,
                data |-> with[i].data \cap fields, data_source |-> "db"]]
  IN  SetCategory(SetCategory(data, "nav_sip_information",
                              Part("nav_sip_information", NavSipFields)),
                  "expense_information", Part("expense_information", ExpenseFields))

MergedTypes == {"expense_information", "nav_sip_information", "fund_characteristics"}

\* merge_data: the chunks of the scraped funds get keys next to `data`
merge_data(data, scraped) ==
  [i \in 1..Len(data) |->
     [category |-> data[i].category,
      chunks |-> [j \in 1..Len(data[i].chunks) |->
                    LET chunk == data[i].chunks[j]
                    IN  IF chunk.chunk_type \in MergedTypes /\ chunk.fund_name \in scraped
                        THEN [chunk EXCEPT !.data_source = "Groww"]
                        ELSE chunk]]]

\* the text a regeneration script embeds for a chunk: fund name, chunk type
\* and data; scripts/regenerate_embeddings.py repeats the fund name
Embedding(chunk, repeat) ==
  [fund_name |-> chunk.fund_name, chunk_type |-> chunk.chunk_type,
   data |-> chunk.data, repeat |-> repeat]

\* whether a vector is an embedding of the chunk
IsEmbeddingOf(vector, chunk) == \E repeat \in {1, 2} : vector = Embedding(chunk, repeat)

\* regenerate_embeddings.py pickles the array itself
regenerate_embeddings(data) ==
  LET chunks == Flatten(data)
  IN  [wrapped |-> FALSE,
       embeddings |-> [i \in 1..Len(chunks) |-> Embedding(chunks[i], 1)],
       chunks_count |-> 0]

\* scripts/regenerate_embeddings.py pickles a dict of the array and metadata
scripts_regenerate_embeddings(data) ==
  LET chunks == Flatten(data)
  IN  [wrapped |-> TRUE,
       embeddings |-> [i \in 1..Len(chunks) |-> Embedding(chunks[i], 2)],
       chunks_count |-> Len(chunks)]

\* WebGeminiFAQAssistant.load_and_prepare_data: the flattened chunks and
\* whatever the pickle holds
load_and_prepare_data(f) ==
  [chunks |-> Flatten(f.rag_chunks), embeddings |-> f.embeddings]

\* what a question is about; the similarity of a question to a vector is
\* high when the vector embeds a chunk of that type
FileQuestions == {"expense_information", "fund_characteristics"}
FileSimilarity(question, vector) == IF vector.chunk_type = question THEN 35 ELSE 15

IndexError == [raised |-> "IndexError"]
Raised == [raised |-> TRUE, results |-> <<>>]

\* np.argsort over the similarities: the orders of ArgSorts, built from the
\* least similarity upwards, in any order among equals
RECURSIVE AscendingOrders(_, _)
AscendingOrders(similarities, indices) ==
  IF indices = {} THEN {<<>>}
  ELSE LET least == {i \in indices : \A j \in indices : similarities[i] <= similarities[j]}
       IN  UNION {{<<i>> \o rest : rest \in AscendingOrders(similarities, indices \ {i})} :
                  i \in least}

FileArgSorts(similarities) == AscendingOrders(similarities, 1..Len(similarities))

\* the rankings find_relevant_chunks can give over the table as a flat array:
\* self.chunks[idx] raises IndexError for a vector without chunk
FlatRankings(a, question) ==
  LET vectors == a.embeddings.embeddings
      n == Len(vectors)
      similarities == [i \in 1..n |-> FileSimilarity(question, vectors[i])]
      chunks == [i \in 1..n |-> IF i <= Len(a.chunks) THEN a.chunks[i] ELSE IndexError]
  IN  IF cosine_similarity_raises(n) THEN {Raised}
      ELSE {LET results == find_relevant_chunks(chunks, similarities, order,
                                                DefaultTopK, Threshold)
            IN  IF \E i \in 1..Len(results) : results[i].chunk = IndexError
                THEN Raised
                ELSE [raised |-> FALSE, results |-> results] :
            order \in FileArgSorts(similarities)}

\* find_relevant_chunks of a process: cosine_similarity rejects a dict
Rankings(a, question) ==
  IF a.embeddings.wrapped THEN {Raised} ELSE FlatRankings(a, question)

(***************************************************************************)
(* The scripts, each run to its end, and the requests of a process.        *)
(***************************************************************************)
\* python scripts/prepare_rag_data.py: nothing is written without schemes
run_prepare_rag_chunks(schemes) ==
  /\ schemes # <<>>
  /\ files' = [files EXCEPT !.rag_chunks = prepare_rag_chunks(schemes)]
  /\ UNCHANGED <<process, web_vars, db_vars>>

run_add_fund_chunks ==
  /\ Len(Flatten(files.rag_chunks)) + 3 <= MaxFileChunks
  /\ files' = [files EXCEPT !.rag_chunks = add_fund_chunks(files.rag_chunks)]
  /\ UNCHANGED <<process, web_vars, db_vars>>

\* rag_data['expense_information'] raises KeyError when the key is missing
run_split_expense_chunks ==
  /\ HasCategory(files.rag_chunks, "expense_information")
  /\ files' = [files EXCEPT !.rag_chunks = split_expense_chunks(files.rag_chunks)]
  /\ UNCHANGED <<process, web_vars, db_vars>>

run_merge_data(scraped) ==
  /\ files' = [files EXCEPT !.rag_chunks = merge_data(files.rag_chunks, scraped)]
  /\ UNCHANGED <<process, web_vars, db_vars>>

run_regenerate_embeddings ==
  /\ files' = [files EXCEPT !.embeddings = regenerate_embeddings(files.rag_chunks)]
  /\ UNCHANGED <<process, web_vars, db_vars>>

run_scripts_regenerate_embeddings ==
  /\ files' = [files EXCEPT !.embeddings = scripts_regenerate_embeddings(files.rag_chunks)]
  /\ UNCHANGED <<process, web_vars, db_vars>>

\* python scripts/gemini_web_chatbot.py: a new process has no assistant.
\* process.answer is the ranking of the last request, when it was a question
start_process ==
  /\ process.assistant # None
  /\ process' = [assistant |-> None, answer |-> None]
  /\ UNCHANGED <<files, web_vars, db_vars>>

\* POST /init with an API key: assistant = WebGeminiFAQAssistant(api_key=...)
process_initialize_assistant ==
  /\ process' = [assistant |-> load_and_prepare_data(files), answer |-> None]
  /\ UNCHANGED <<files, web_vars, db_vars>>

\* POST /ask with a question: the assistant is made when there is none, and
\* the question is ranked against its table
process_ask_question ==
  /\ \E current \in {IF process.assistant = None
                      THEN load_and_prepare_data(files) ELSE process.assistant} :
     \E question \in FileQuestions :
     \E answer \in Rankings(current, question) :
       process' = [assistant |-> current,
                   answer |-> [question |-> question, raised |-> answer.raised,
                               results |-> answer.results]]
  /\ UNCHANGED <<files, web_vars, db_vars>>

SchemeLists == {<<"A">>}
ScrapedSets == {{"A"}}

\* the files after prepare_rag_chunks and regenerate_embeddings, and a
\* process that has served no request
InitFiles ==
  /\ \E schemes \in SchemeLists :
       files = [rag_chunks |-> prepare_rag_chunks(schemes),
                embeddings |-> regenerate_embeddings(prepare_rag_chunks(schemes))]
  /\ process = [assistant |-> None, answer |-> None]
  /\ rag_chunks = <<>> /\ assistant = None /\ request = None /\ reply = None
  /\ db = None /\ scrape = None

NextFiles ==
  \/ \E schemes \in SchemeLists : run_prepare_rag_chunks(schemes)
  \/ run_add_fund_chunks
  \/ run_split_expense_chunks
  \/ \E scraped \in ScrapedSets : run_merge_data(scraped)
  \/ run_regenerate_embeddings
  \/ run_scripts_regenerate_embeddings
  \/ start_process
  \/ process_initialize_assistant
  \/ process_ask_question

SpecFiles == InitFiles /\ [][NextFiles]_vars

(***************************************************************************)
(* data/mutual_funds.db (database/models.py), DatabaseManager              *)
(* (database/db_manager.py) and the loop of scripts/scrape_uti_schemes.py. *)
(*                                                                         *)
(* A table is the sequence of its rows in insertion order.  A session is   *)
(* the database as the transaction sees it; commit makes it the database,  *)
(* rollback discards it.                                                   *)
(***************************************************************************)
MaxAttempts == 3

Url(netloc, path) == [netloc |-> netloc, path |-> path]
FundUrl == Url("groww.in", <<"/","m","u","t","u","a","l","-","f","u","n","d","s","/","a">>)
HelpUrl == Url("groww.in", <<"/","h","e","l","p","/","b">>)
OtherUrl == Url("example.com", <<"/","m","u","t","u","a","l","-","f","u","n","d","s","/","a">>)
Urls == {FundUrl, HelpUrl, OtherUrl}

\* GrowwScraperPlaywright.validate_url; every URL of the model is well formed
validate_url(url) ==
  /\ url.netloc \in {"groww.in", "www.groww.in"}
  /\ Contains(url.path, <<"/","m","u","t","u","a","l","-","f","u","n","d","s","/">>) \/ Contains(url.path, <<"/","h","e","l","p","/">>)

\* DataValidator.validate_url: ^https?://(www\.)?groww\.in/mutual-funds/[\w-]+$
DataValidator_validate_url(url) ==
  /\ url.netloc \in {"groww.in", "www.groww.in"}
  /\ StartsWith(url.path, <<"/","m","u","t","u","a","l","-","f","u","n","d","s","/">>)
  /\ Len(url.path) > Len(<<"/","m","u","t","u","a","l","-","f","u","n","d","s","/">>)
  /\ \A i \in (Len(<<"/","m","u","t","u","a","l","-","f","u","n","d","s","/">>) + 1)..Len(url.path) :
       IsAlpha(url.path[i]) \/ IsDigit(url.path[i]) \/ url.path[i] \in {"_", "-"}

(***************************************************************************)
(* Python values of a scraped-data dictionary: None, [str |-> characters], *)
(* [number |-> n], [dict |-> mapping of keys to values], [list |-> items]. *)
(* A dictionary is a record; a missing key reads as None (dict.get).       *)
(***************************************************************************)
IsStr(v) == "str" \in DOMAIN v
IsNumber(v) == "number" \in DOMAIN v
IsDict(v) == "dict" \in DOMAIN v
IsList(v) == "list" \in DOMAIN v

\* bool(v)
Truthy(v) ==
  /\ v # None
  /\ IsStr(v) => v.str # <<>>
  /\ IsNumber(v) => v.number # 0
  /\ IsDict(v) => DOMAIN v.dict # {}
  /\ IsList(v) => v.list # <<>>

\* len(v), of a value that has a length
PyLen(v) ==
  IF IsStr(v) THEN Len(v.str) ELSE IF IsDict(v) THEN Cardinality(DOMAIN v.dict) ELSE Len(v.list)

\* data.get(key)
GetField(data, key) == IF key \in DOMAIN data THEN data[key] ELSE None

\* float(text) succeeds: an optional sign, digits and at most one point,
\* between blanks (exponents, inf and nan are not among the model's texts)
IsFloat(text) ==
  LET t == Strip(text)
      u == IF t # <<>> /\ t[1] \in {"+", "-"} THEN Tail(t) ELSE t
  IN  /\ \E i \in 1..Len(u) : IsDigit(u[i])
      /\ \A i \in 1..Len(u) : IsDigit(u[i]) \/ u[i] = "."
      /\ Cardinality({i \in 1..Len(u) : u[i] = "."}) <= 1

\* lo <= float(text) <= hi for non-negative bounds -lo and hi
FloatWithin(text, lo, hi) ==
  LET t == Strip(text)
      negative == t[1] = "-"
      u == IF t[1] \in {"+", "-"} THEN Tail(t) ELSE t
      point == IndexIn(".", u)
      whole == IntOf(IF point = 0 THEN u ELSE SubSeq(u, 1, point - 1))
      fraction == IF point = 0 THEN <<>> ELSE SubSeq(u, point + 1, Len(u))
      zero == \A i \in 1..Len(fraction) : fraction[i] = "0"
      bound == IF negative THEN lo ELSE hi
  IN  whole < bound \/ (whole = bound /\ zero)

Without(text, chars) == SelectSeq(text, LAMBDA c : c \notin chars)

\* DataValidator.validate_fund_name: len of a number raises TypeError
validate_fund_name_raises(name) == Truthy(name) /\ IsNumber(name)
validate_fund_name(name) ==
  Truthy(name) /\ ~IsNumber(name) /\ PyLen(name) >= 5 /\ PyLen(name) <= 200

\* 'value' in nav: a substring of a str, a key of a dict, an item of a list
HasValue(nav) ==
  IF IsStr(nav) THEN Contains(nav.str, <<"v","a","l","u","e">>)
  ELSE IF IsDict(nav) THEN "value" \in DOMAIN nav.dict
  ELSE \E i \in 1..Len(nav.list) : nav.list[i] = [str |-> <<"v","a","l","u","e">>]

\* DataValidator.validate_nav: `in` raises TypeError for a number, and
\* nav['value'] raises TypeError for a str or a list; AttributeError and
\* ValueError are caught
validate_nav_raises(nav) ==
  /\ Truthy(nav)
  /\ IsNumber(nav) \/ (~IsDict(nav) /\ HasValue(nav))
validate_nav(nav) ==
  /\ Truthy(nav)
  /\ IsDict(nav)
  /\ HasValue(nav)
  /\ IsStr(nav.dict.value)
  /\ IsFloat(Without(nav.dict.value.str, {","}))

\* DataValidator.validate_amount; the texts of the model carry no currency
\* sign or unit
validate_amount(amount) ==
  /\ Truthy(amount)
  /\ IsStr(amount) \/ IsNumber(amount)
  /\ IsStr(amount) => IsFloat(Without(amount.str, {",", " "}))

\* DataValidator.validate_percentage
validate_percentage(value) ==
  /\ Truthy(value)
  /\ IsStr(value) \/ IsNumber(value)
  /\ IsStr(value) => /\ IsFloat(Without(value.str, {"%", " "}))
                     /\ FloatWithin(Without(value.str, {"%", " "}), 100, 1000)
  /\ IsNumber(value) => value.number \in -100..1000

\* DataValidator.validate_fund_manager: len of a number and re.search over a
\* dict or a list raise TypeError
validate_fund_manager_raises(manager) ==
  /\ Truthy(manager)
  /\ IsNumber(manager) \/ (~IsStr(manager) /\ PyLen(manager) >= 2 /\ PyLen(manager) <= 100)
validate_fund_manager(manager) ==
  /\ Truthy(manager)
  /\ IsStr(manager)
  /\ PyLen(manager) >= 2 /\ PyLen(manager) <= 100
  /\ \E i \in 1..Len(manager.str) : IsAlpha(manager.str[i])

\* DataValidator.validate_returns
validate_returns(returns) == Truthy(returns) /\ IsDict(returns)

\* the fields of data_mapping kept in the model, in its order
DataTypes == <<"nav", "expense_ratio">>

Nav(value) == [dict |-> [value |-> [str |-> value]]]
FundNames_Scraped == {None, [str |-> <<"U","T","I"," ","G","o","l","d">>]}
NavValues == {None, Nav(<<"1","0",".","5">>), Nav(<<"1","1",".","0">>)}
ExpenseValues == {None, [str |-> <<"0",".","9","5","%">>]}

\* what scrape_scheme returns for a page
ScrapedData(url, fund_name, nav, expense_ratio) ==
  [source_url |-> url, fund_name |-> fund_name, nav |-> nav, expense_ratio |-> expense_ratio]

\* 'is_valid': len(errors) == 0
IsValid_NoWarnings(errors, warnings) == Len(errors) = 0 /\ Len(warnings) = 0
IsValid(errors, warnings) == Len(errors) = 0

\* the source URL is a URL of the model, or any other Python value
IsUrl(v) == "netloc" \in DOMAIN v

\* DataValidator.validate_scraped_data: whether it raises and, when it does
\* not, the errors and warnings of the fields of the model
validate_scraped_data(data) ==
  LET Unless(ok, message) == IF ok THEN <<>> ELSE <<message>>
      source_url == GetField(data, "source_url")
      exit_load == GetField(data, "exit_load")
      errors ==
        Unless(IsUrl(source_url) /\ DataValidator_validate_url(source_url),
               "Invalid or missing source URL")
        \o Unless(validate_fund_name(GetField(data, "fund_name")),
                  "Invalid or missing fund name")
      warnings ==
        Unless(validate_nav(GetField(data, "nav")), "NAV data missing or invalid")
        \o Unless(validate_amount(GetField(data, "min_sip")),
                  "Minimum SIP amount missing or invalid")
        \o Unless(validate_amount(GetField(data, "fund_size")),
                  "Fund size missing or invalid")
        \o Unless(validate_percentage(GetField(data, "expense_ratio")),
                  "Expense ratio missing or invalid")
        \o Unless(~(Truthy(exit_load) /\ ~IsStr(exit_load)), "Exit load format invalid")
        \o Unless(validate_fund_manager(GetField(data, "fund_manager")),
                  "Fund manager name missing or invalid")
        \o Unless(validate_returns(GetField(data, "fund_returns")),
                  "Fund returns missing or invalid")
  IN  IF \/ validate_fund_name_raises(GetField(data, "fund_name"))
         \/ validate_nav_raises(GetField(data, "nav"))
         \/ validate_fund_manager_raises(GetField(data, "fund_manager"))
      THEN [raised |-> TRUE, errors |-> <<>>, warnings |-> <<>>, is_valid |-> FALSE]
      ELSE [raised |-> FALSE, errors |-> errors, warnings |-> warnings,
            is_valid |-> IsValid(errors, warnings)]

\* json.dumps(value) for a dict or list, str(value) otherwise
ValueStr(value) ==
  IF "dict" \in DOMAIN value THEN [json |-> value] ELSE [text |-> value.str]

\* the texts of the model that are JSON documents by themselves
JsonTexts == {<<"1",".","5">>}

\* json.loads(dp.value), and dp.value itself on JSONDecodeError
Loads(value_str) ==
  IF "json" \in DOMAIN value_str THEN value_str.json
  ELSE IF value_str.text \in JsonTexts THEN [number |-> value_str.text]
  ELSE [str |-> value_str.text]

\* the scheme_id save_scheme_data returns after a rollback: None, which is
\* as false as 0 to its caller
NoId == 0

EmptyDb == [schemes |-> <<>>, scheme_data |-> <<>>, scrape_logs |-> <<>>]

\* the rows of schemes with the source_url: the query of save_scheme_data and
\* get_scheme_data, and the rows the unique index of the column looks at
SchemesWithUrl_Blind(session, url) == <<>>
SchemesWithUrl(session, url) ==
  SelectSeq(session.schemes, LAMBDA s : s.source_url = url)

\* the rows of scheme_data of a scheme and data type
ExistingData_Blind(session, scheme_id, data_type) == {}
ExistingData(session, scheme_id, data_type) ==
  {i \in 1..Len(session.scheme_data) :
     /\ session.scheme_data[i].scheme_id = scheme_id
     /\ session.scheme_data[i].data_type = data_type}

\* flushing a Scheme row raises IntegrityError for a NULL scheme_name and,
\* for a new row, for a source_url another row has
SchemeFlushRaises(session, name, url, is_new) ==
  name = None \/ (is_new /\ SchemesWithUrl(session, url) # <<>>)

\* the loop over data_mapping: update the first existing row, or add one
RECURSIVE SaveDataPoints(_, _, _, _)
SaveDataPoints(session, scheme_id, data, types) ==
  IF types = <<>> THEN session
  ELSE LET data_type == Head(types)
           value == data[data_type]
           existing == ExistingData(session, scheme_id, data_type)
           first == CHOOSE i \in existing : \A j \in existing : i <= j
           next ==
             IF value = None THEN session
             ELSE IF existing # {}
             THEN [session EXCEPT !.scheme_data[first].value = ValueStr(value)]
             ELSE [session EXCEPT !.scheme_data =
                     Append(@, [scheme_id |-> scheme_id, data_type |-> data_type,
                                value |-> ValueStr(value),
                                source_url |-> data.source_url])]
       IN  SaveDataPoints(next, scheme_id, data, Tail(types))

DataCount(data) == Cardinality({i \in 1..Len(DataTypes) : data[DataTypes[i]] # None})

LogStatus(validation_result) ==
  IF validation_result.errors # <<>> THEN "failed"
  ELSE IF validation_result.is_valid THEN "success" ELSE "partial"

\* session.rollback() in the except clauses: the database keeps what it held
\* before the transaction
rollback_Keeps(database, session) == session
rollback(database, session) == database

\* DatabaseManager.save_scheme_data: the database afterwards and the returned
\* scheme_id
save_scheme_data(database, scraped_data, validation_result) ==
  LET url == scraped_data.source_url
      found == SchemesWithUrl(database, url)
      is_new == found = <<>>
      scheme_id == IF is_new THEN Len(database.schemes) + 1 ELSE found[1].id
      with_scheme ==
        IF is_new
        THEN [database EXCEPT !.schemes =
                Append(@, [id |-> scheme_id, scheme_name |-> scraped_data.fund_name,
                           source_url |-> url])]
        ELSE [database EXCEPT !.schemes =
                [i \in 1..Len(@) |->
                   IF @[i].id = scheme_id
                   THEN [@[i] EXCEPT !.scheme_name = scraped_data.fund_name]
                   ELSE @[i]]]
      with_data == SaveDataPoints(with_scheme, scheme_id, scraped_data, DataTypes)
      log == [scheme_url |-> url, status |-> LogStatus(validation_result),
              data_count |-> DataCount(scraped_data)]
  IN  IF SchemeFlushRaises(database, scraped_data.fund_name, url, is_new)
      THEN [db |-> rollback(database, with_scheme), scheme_id |-> NoId]
      ELSE [db |-> [with_data EXCEPT !.scrape_logs = Append(@, log)],
            scheme_id |-> scheme_id]

\* DatabaseManager.get_scheme_data: None without scheme; a later row of a data
\* type replaces an earlier one in result['data']
get_scheme_data(database, scheme_url) ==
  LET found == SchemesWithUrl(database, scheme_url)
      scheme == found[1]
      rows == {i \in 1..Len(database.scheme_data) :
                 database.scheme_data[i].scheme_id = scheme.id}
      types == {database.scheme_data[i].data_type : i \in rows}
      Last(t) == CHOOSE i \in rows :
                   /\ database.scheme_data[i].data_type = t
                   /\ \A j \in rows : database.scheme_data[j].data_type = t => j <= i
  IN  IF found = <<>> THEN None
      ELSE [scheme_id |-> scheme.id, scheme_name |-> scheme.scheme_name,
            source_url |-> scheme.source_url,
            data |-> [t \in types |-> Loads(database.scheme_data[Last(t)].value)]]

(***************************************************************************)
(* scrape_all_schemes: one step is one pass of the loop over the URLs.     *)
(* scrape.results counts the entries of results; scrape.last is the pass   *)
(* that reached save_scheme_data last.                                     *)
(***************************************************************************)
Attempts == scrape.results.success + scrape.results.partial + scrape.results.failed

Counted(status) == [scrape.results EXCEPT ![status] = @ + 1]

\* scraper.validate_url(url) is false: the pass ends at `continue`
scrape_invalid_url(url) ==
  /\ Attempts < MaxAttempts
  /\ ~validate_url(url)
  /\ scrape' = [scrape EXCEPT !.results = Counted("failed")]
  /\ UNCHANGED <<db, web_vars, files_vars>>

\* fetch_page raises inside scrape_scheme: the pass ends in the except clause
scrape_raises(url) ==
  /\ Attempts < MaxAttempts
  /\ validate_url(url)
  /\ scrape' = [scrape EXCEPT !.results = Counted("failed")]
  /\ UNCHANGED <<db, web_vars, files_vars>>

\* the page is scraped, validated and saved
scrape_and_save(url, fund_name, nav, expense_ratio) ==
  /\ Attempts < MaxAttempts
  /\ validate_url(url)
  /\ LET data == ScrapedData(url, fund_name, nav, expense_ratio)
         validation_result == validate_scraped_data(data)
         saved == save_scheme_data(db, data, validation_result)
     IN  /\ db' = saved.db
         /\ scrape' = [results |-> IF saved.scheme_id = NoId THEN Counted("failed")
                                   ELSE Counted(LogStatus(validation_result)),
                       last |-> [data |-> data, scheme_id |-> saved.scheme_id,
                                 rescrape |-> SchemesWithUrl(db, url) # <<>>]]
  /\ UNCHANGED <<web_vars, files_vars>>

\* a new database file and a scraper that has not run
InitDb ==
  /\ db = EmptyDb
  /\ scrape = [results |-> [success |-> 0, partial |-> 0, failed |-> 0], last |-> None]
  /\ rag_chunks = <<>> /\ assistant = None /\ request = None /\ reply = None
  /\ files = None /\ process = None

NextDb ==
  \/ \E url \in Urls : scrape_invalid_url(url)
  \/ \E url \in Urls : scrape_raises(url)
  \/ \E url \in Urls, fund_name \in FundNames_Scraped, nav \in NavValues,
        expense_ratio \in ExpenseValues :
       scrape_and_save(url, fund_name, nav, expense_ratio)

SpecDb == InitDb /\ [][NextDb]_vars

(***************************************************************************)
(* DataValidator.validate_scraped_data over dictionaries of any shape.     *)
(* scrape.data is the dictionary at hand, scrape.validation the outcome    *)
(* of validating it.                                                       *)
(***************************************************************************)
\* values of every type and shape for a field; a missing key is left out of
\* the dictionary
AnyNames ==
  {None, [str |-> <<>>], [str |-> <<"U","T","I">>], [str |-> <<"U","T","I"," ","G","o","l","d">>], [number |-> 7],
   [dict |-> <<>>], [list |-> <<[str |-> <<"U","T","I"," ","G","o","l","d">>]>>]}
AnyNavs ==
  {None, Nav(<<"1","0",".","5">>), Nav(<<"n","/","a">>), [dict |-> [value |-> [number |-> 10]]],
   [dict |-> [date |-> [str |-> <<"t","o","d","a","y">>]]], [str |-> <<"1","0",".","5">>], [str |-> <<"v","a","l","u","e"," ","1","0",".","5">>],
   [number |-> 10], [list |-> <<[str |-> <<"v","a","l","u","e">>]>>], [list |-> <<[number |-> 10]>>]}
AnyManagers ==
  {None, [str |-> <<"A">>], [str |-> <<"A","n","n">>], [str |-> <<"4","2">>], [number |-> 4],
   [dict |-> [name |-> [str |-> <<"A","n","n">>]]],
   [list |-> <<[str |-> <<"A","n","n">>], [str |-> <<"B","o","b">>]>>]}
AnySourceUrls == {None, FundUrl, HelpUrl, [number |-> 1]}

\* the keys a dictionary of the model may carry besides source_url
OptionalKeys == {"fund_name", "nav", "fund_manager"}

Dictionaries ==
  {[key \in keys \cup {"source_url"} |->
      CASE key = "source_url" -> url
        [] key = "fund_name" -> name
        [] key = "nav" -> nav
        [] key = "fund_manager" -> manager] :
   keys \in SUBSET OptionalKeys, url \in AnySourceUrls, name \in AnyNames,
   nav \in AnyNavs, manager \in AnyManagers}

\* a caller has a dictionary to validate
take_dictionary(data) ==
  /\ scrape.data = None
  /\ scrape' = [data |-> data, validation |-> None]
  /\ UNCHANGED <<db, web_vars, files_vars>>

\* validator.validate_scraped_data(data)
call_validate_scraped_data ==
  /\ scrape.data # None /\ scrape.validation = None
  /\ scrape' = [scrape EXCEPT !.validation = validate_scraped_data(scrape.data)]
  /\ UNCHANGED <<db, web_vars, files_vars>>

InitValidator ==
  /\ scrape = [data |-> None, validation |-> None]
  /\ db = None
  /\ rag_chunks = <<>> /\ assistant = None /\ request = None /\ reply = None
  /\ files = None /\ process = None

NextValidator ==
  \/ \E data \in Dictionaries : take_dictionary(data)
  \/ call_validate_scraped_data

SpecValidator == InitValidator /\ [][NextValidator]_vars
(***************************************************************************)
(* prepare_rag_data.py over the database.  files.rag_chunks is the chunk   *)
(* file, files.written_from the database read by the last run that wrote   *)
(* it (None while there is no file), files.runs the number of runs and     *)
(* files.rerun whether the last run read the database the run before it    *)
(* had read.                                                               *)
(***************************************************************************)
MaxSaves == 2
MaxRuns == 3

\* chunk_categories, in the order of the dict
ChunkCategories ==
  << [category |-> "expense_information",
      data_types |-> <<"expense_ratio", "exit_load", "min_sip", "stamp_duty">>],
     [category |-> "performance_metrics",
      data_types |-> <<"fund_returns", "category_averages", "rank", "pe_ratio",
                       "pb_ratio", "annualised_returns">>],
     [category |-> "fund_characteristics",
      data_types |-> <<"fund_size", "fund_manager", "lock_in", "scheme_type",
                       "sub_category", "is_elss", "category_label">>],
     [category |-> "risk_information",
      data_types |-> <<"riskometer", "risk_metrics", "benchmark">>],
     [category |-> "platform_information",
      data_types |-> <<"statement_download_info">>] >>

\* bool(value) of a value get_scheme_data loaded
LoadedTruthy(value) == IF IsNumber(value) THEN value.number # <<"0">> ELSE Truthy(value)

\* category_data: the data types of the category the scheme has a true value for
CategoryData(data, data_types) ==
  LET kept == {i \in 1..Len(data_types) :
                 data_types[i] \in DOMAIN data /\ LoadedTruthy(data[data_types[i]])}
  IN  [t \in {data_types[i] : i \in kept} |-> data[t]]

\* the chunks of one scheme, in the order of chunk_categories
SchemeChunks(scheme_data) ==
  LET made == [i \in 1..Len(ChunkCategories) |->
                 [fund_name |-> scheme_data.scheme_name,
                  source_url |-> scheme_data.source_url,
                  chunk_type |-> ChunkCategories[i].category,
                  data |-> CategoryData(scheme_data.data, ChunkCategories[i].data_types)]]
  IN  SelectSeq(made, LAMBDA chunk : DOMAIN chunk.data # {})

\* 'help' in scheme['source_url'] or 'transaction-history' in scheme['source_url']
IsPlatformUrl(url) ==
  Contains(url.path, <<"h","e","l","p">>) \/ Contains(url.path, <<"t","r","a","n","s","a","c","t","i","o","n","-","h","i","s","t","o","r","y">>)

\* the platform chunk of a scheme, if it is one of a help page with data
PlatformChunks(scheme_data) ==
  IF IsPlatformUrl(scheme_data.source_url) /\ DOMAIN scheme_data.data # {}
  THEN << [fund_name |-> [str |-> <<"G","r","o","w","w"," ","P","l","a","t","f","o","r","m">>],
           source_url |-> scheme_data.source_url,
           chunk_type |-> "platform_information",
           data |-> scheme_data.data] >>
  ELSE <<>>

\* chunks[category].append(chunk) for each chunk in turn, on a defaultdict
RECURSIVE AppendChunks(_, _)
AppendChunks(chunks, new) ==
  IF new = <<>> THEN chunks
  ELSE LET category == Head(new).chunk_type
           before == IF HasCategory(chunks, category)
                     THEN CategoryChunks(chunks, category) ELSE <<>>
       IN  AppendChunks(SetCategory(chunks, category, Append(before, Head(new))),
                        Tail(new))

\* for scheme in schemes: the category chunks of the schemes from the i-th on
RECURSIVE AllSchemeChunks(_, _)
AllSchemeChunks(database, i) ==
  IF i > Len(database.schemes) THEN <<>>
  ELSE SchemeChunks(get_scheme_data(database, database.schemes[i].source_url))
         \o AllSchemeChunks(database, i + 1)

\* for scheme in schemes: the platform chunks of the schemes from the i-th on
RECURSIVE AllPlatformChunks(_, _)
AllPlatformChunks(database, i) ==
  IF i > Len(database.schemes) THEN <<>>
  ELSE PlatformChunks(get_scheme_data(database, database.schemes[i].source_url))
         \o AllPlatformChunks(database, i + 1)

\* dict(chunks) of prepare_rag_chunks for the database
chunks_of_database(database) ==
  AppendChunks(AppendChunks(<<>>, AllSchemeChunks(database, 1)),
               AllPlatformChunks(database, 1))

\* with open(json_file, 'w') ... json.dump(dict(chunks), f): the file holds
\* the new document alone
json_dump_Appending(existing, document) == existing \o document
json_dump(existing, document) == document

\* a script saves a scraped page with DatabaseManager.save_scheme_data
save_page(url, fund_name, nav, expense_ratio) ==
  /\ Len(db.scrape_logs) < MaxSaves
  /\ LET data == ScrapedData(url, fund_name, nav, expense_ratio)
     IN  db' = save_scheme_data(db, data, validate_scraped_data(data)).db
  /\ db' # db
  /\ UNCHANGED <<scrape, files, process, web_vars>>

\* python scripts/prepare_rag_data.py with schemes in the database
run_prepare_rag_data ==
  /\ files.runs < MaxRuns
  /\ db.schemes # <<>>
  /\ files' = [rag_chunks |-> json_dump(files.rag_chunks, chunks_of_database(db)),
               written_from |-> db,
               runs |-> files.runs + 1,
               rerun |-> files.written_from = db]
  /\ UNCHANGED <<db, scrape, process, web_vars>>

\* python scripts/prepare_rag_data.py returns at "No schemes found"
run_prepare_rag_data_no_schemes ==
  /\ files.runs < MaxRuns
  /\ db.schemes = <<>>
  /\ files' = [files EXCEPT !.runs = @ + 1, !.rerun = FALSE]
  /\ UNCHANGED <<db, scrape, process, web_vars>>

ChunkUrls == {FundUrl, HelpUrl}
ChunkNames == {[str |-> <<"U","T","I"," ","G","o","l","d">>]}
ChunkNavs == {None, Nav(<<"1","0",".","5">>)}
ChunkExpenses == {None, [str |-> <<"0",".","9","5","%">>], [str |-> <<"1",".","5">>]}

InitChunks ==
  /\ db = EmptyDb
  /\ files = [rag_chunks |-> <<>>, written_from |-> None, runs |-> 0, rerun |-> FALSE]
  /\ scrape = None /\ process = None
  /\ rag_chunks = <<>> /\ assistant = None /\ request = None /\ reply = None

NextChunks ==
  \/ \E url \in ChunkUrls, fund_name \in ChunkNames, nav \in ChunkNavs,
        expense_ratio \in ChunkExpenses :
       save_page(url, fund_name, nav, expense_ratio)
  \/ run_prepare_rag_data
  \/ run_prepare_rag_data_no_schemes

SpecChunks == InitChunks /\ [][NextChunks]_vars

(***************************************************************************)
(* The chunk-type filter of answer_question on its own: request is the     *)
(* question and the candidates find_relevant_chunks returned for it,       *)
(* reply what the lines 479-563 make of them.                              *)
(***************************************************************************)
MaxCandidates == 2

\* the chunk types of the if/elif chain, in its order
FilterTypes ==
  << <<"f","u","n","d","_","c","h","a","r","a","c","t","e","r","i","s","t","i","c","s">>, <<"n","a","v","_","s","i","p","_","i","n","f","o","r","m","a","t","i","o","n">>, <<"e","x","p","e","n","s","e","_","i","n","f","o","r","m","a","t","i","o","n">>,
     <<"p","e","r","f","o","r","m","a","n","c","e","_","m","e","t","r","i","c","s">>, <<"r","i","s","k","_","i","n","f","o","r","m","a","t","i","o","n">>, <<"h","o","l","d","i","n","g","s","_","i","n","f","o","r","m","a","t","i","o","n">> >>

\* a chunk of each type for one fund, and an expense chunk of another
CandidatePool ==
  {Chunk(FundA, UrlA, FilterTypes[i], <<>>) : i \in 1..Len(FilterTypes)}
    \cup {Chunk(FundB, UrlB, <<"e","x","p","e","n","s","e","_","i","n","f","o","r","m","a","t","i","o","n">>, <<>>)}

\* results of find_relevant_chunks: in descending order of similarity
CandidateLists ==
  UNION {{[i \in 1..n |-> [chunk |-> pick[i],
                           similarity |-> IF i = 1 THEN 35 ELSE 25,
                           idx |-> i]] :
          pick \in [1..n -> CandidatePool]} : n \in 0..MaxCandidates}

\* questions with keywords of no, one and several intents
FilterQuestions ==
  { <<"r","e","t","u","r","n","s">>, <<"f","u","n","d"," ","s","i","z","e">>, <<"n","a","v">>, <<"e","x","p","e","n","s","e"," ","r","a","t","i","o">>, <<"p","e"," ","r","a","t","i","o">>, <<"r","i","s","k">>,
    <<"t","o","p"," ","5"," ","s","t","o","c","k","s">>, <<"f","u","n","d"," ","s","i","z","e"," ","a","n","d"," ","n","a","v">>, <<"n","a","v"," ","a","n","d"," ","e","x","p","e","n","s","e"," ","r","a","t","i","o">>,
    <<"e","x","p","e","n","s","e"," ","r","a","t","i","o"," ","a","n","d"," ","p","e"," ","r","a","t","i","o">>, <<"p","e"," ","r","a","t","i","o"," ","a","n","d"," ","r","i","s","k">>, <<"r","i","s","k"," ","o","f"," ","t","h","e"," ","h","o","l","d","i","n","g","s">>,
    <<"h","o","l","d","i","n","g","s"," ","a","n","d"," ","f","u","n","d"," ","m","a","n","a","g","e","r">>, <<"E","x","p","e","n","s","e"," ","r","a","t","i","o"," ","o","f"," ">> \o FundB }

FilterIntentOf == [question \in FilterQuestions |-> Intent(question)]

\* a question arrives and find_relevant_chunks returns candidates for it
retrieve_candidates(question, candidates) ==
  /\ request = None
  /\ request' = [question |-> question, candidates |-> candidates]
  /\ UNCHANGED <<reply, rag_chunks, assistant, files_vars, db_vars>>

\* lines 479-563: the mentioned fund, the narrowing to it and the filter
filter_candidates ==
  /\ request # None /\ reply = None
  /\ LET in == FilterIntentOf[request.question]
         mentioned_fund == MentionedFund(request.candidates, in)
         narrowed == NarrowToFund(request.candidates, mentioned_fund)
     IN  reply' = [mentioned_fund |-> mentioned_fund, narrowed |-> narrowed,
                   relevant_chunks |-> FilterByIntent(narrowed, in, mentioned_fund)]
  /\ UNCHANGED <<request, rag_chunks, assistant, files_vars, db_vars>>

InitFilter ==
  /\ request = None /\ reply = None
  /\ rag_chunks = <<>> /\ assistant = None
  /\ files = None /\ process = None /\ db = None /\ scrape = None

NextFilter ==
  \/ \E question \in FilterQuestions, candidates \in CandidateLists :
       retrieve_candidates(question, candidates)
  \/ filter_candidates

SpecFilter == InitFilter /\ [][NextFilter]_vars

(***************************************************************************)
(* Requests of scripts/gemini_web_chatbot.py served by threads at the same *)
(* time (app.run serves each request in a thread of its own).  A step is   *)
(* one access of a handler to the global.  assistant.global is the object  *)
(* the global names (NoObject for None), assistant.objects the histories   *)
(* of the WebGeminiFAQAssistant objects made so far; request gives each    *)
(* thread its position, the object it holds and whether it found the       *)
(* global unset; reply is what GET /history returned.                      *)
(***************************************************************************)
NoObject == 0

AskThreads == {"ask1", "ask2"}
InitThread == "init"
Threads == AskThreads \cup {InitThread}

\* the entry answer_question appends for the question of the thread
Interaction(thread) == [question |-> thread]

At(thread, pc) == request[thread].pc = pc

Goto(thread, pc, ref) ==
  request' = [request EXCEPT ![thread].pc = pc, ![thread].ref = ref]

\* POST /ask arrives
ask_arrives(thread) ==
  /\ At(thread, "idle")
  /\ Goto(thread, "test", NoObject)
  /\ UNCHANGED <<assistant, reply, rag_chunks, files_vars, db_vars>>

\* if not assistant:
ask_tests_global(thread) ==
  /\ At(thread, "test")
  /\ request' = [request EXCEPT
                   ![thread].pc = IF assistant.global = NoObject THEN "construct"
                                  ELSE "call",
                   ![thread].lazy = assistant.global = NoObject]
  /\ UNCHANGED <<assistant, reply, rag_chunks, files_vars, db_vars>>

\* WebGeminiFAQAssistant(api_key=api_key), in /ask and in /init: a new object
\* with an empty history, held by the thread
constructs(thread) ==
  /\ At(thread, "construct")
  /\ assistant' = [assistant EXCEPT !.objects = Append(@, <<>>)]
  /\ Goto(thread, "assign", Len(assistant.objects) + 1)
  /\ UNCHANGED <<reply, rag_chunks, files_vars, db_vars>>

\* assistant = <the new object>
assigns_global(thread) ==
  /\ At(thread, "assign")
  /\ assistant' = [assistant EXCEPT !.global = request[thread].ref]
  /\ Goto(thread, IF thread = InitThread THEN "done" ELSE "call", NoObject)
  /\ UNCHANGED <<reply, rag_chunks, files_vars, db_vars>>

\* assistant.answer_question(question): the global is read and the method of
\* the object it names is entered
ask_calls_answer_question(thread) ==
  /\ At(thread, "call")
  /\ Goto(thread, "answering", assistant.global)
  /\ UNCHANGED <<assistant, reply, rag_chunks, files_vars, db_vars>>

\* self.conversation_history.append(...) at the end of answer_question
ask_logs_interaction(thread) ==
  /\ At(thread, "answering")
  /\ assistant' = [assistant EXCEPT !.objects[request[thread].ref] =
                     Append(@, Interaction(thread))]
  /\ Goto(thread, "done", NoObject)
  /\ UNCHANGED <<reply, rag_chunks, files_vars, db_vars>>

\* POST /init with an API key arrives and passes get_json
init_arrives ==
  /\ At(InitThread, "idle")
  /\ Goto(InitThread, "construct", NoObject)
  /\ UNCHANGED <<assistant, reply, rag_chunks, files_vars, db_vars>>

\* a later GET /history, when no request is being served
race_get_history ==
  /\ \A thread \in AskThreads : At(thread, "done")
  /\ At(InitThread, "idle") \/ At(InitThread, "done")
  /\ reply = None
  /\ reply' = [history |-> IF assistant.global = NoObject THEN <<>>
                           ELSE assistant.objects[assistant.global]]
  /\ UNCHANGED <<assistant, request, rag_chunks, files_vars, db_vars>>

InitRace ==
  /\ assistant = [global |-> NoObject, objects |-> <<>>]
  /\ request = [thread \in Threads |-> [pc |-> "idle", ref |-> NoObject, lazy |-> FALSE]]
  /\ reply = None
  /\ rag_chunks = <<>>
  /\ files = None /\ process = None /\ db = None /\ scrape = None

NextRace ==
  \/ \E thread \in AskThreads : ask_arrives(thread)
  \/ \E thread \in AskThreads : ask_tests_global(thread)
  \/ \E thread \in Threads : constructs(thread)
  \/ \E thread \in Threads : assigns_global(thread)
  \/ \E thread \in AskThreads : ask_calls_answer_question(thread)
  \/ \E thread \in AskThreads : ask_logs_interaction(thread)
  \/ init_arrives
  \/ race_get_history

SpecRace == InitRace /\ [][NextRace]_vars

(***************************************************************************)
(* Properties.                                                             *)
(***************************************************************************)
\* the reply in flight is the result of a call of answer_question
Answered == reply # None /\ reply.route = "/ask" /\ reply.answer.path # "none"

\* the normalised forms of the questions, and keyword tests on them,
\* tabulated
NormalisedQuestions == {Strip(Lower(v)) : v \in Questions}

HasAdviceKeyword == [q \in NormalisedQuestions |-> AnyIn(advice_keywords, q)]

HasHoldingsKeyword == [q \in NormalisedQuestions |-> AnyIn(holdings_keywords, q)]

BeginsWithGreeting ==
  [q \in NormalisedQuestions |->
     \E n \in 1..Len(greeting_keywords) :
       q = greeting_keywords[n] \/ StartsWith(q, greeting_keywords[n] \o <<" ">>)]

AsksExpenseRatio == [q \in NormalisedQuestions |-> Contains(q, <<"e","x","p","e","n","s","e"," ","r","a","t","i","o">>)]

InResults(results, idx) == \E i \in 1..Len(results) : results[i].idx = idx

\* the funds of the corpus that a question names in full
NamedFunds(question, chunks) ==
  {chunks[i].fund_name : i \in {j \in 1..Len(chunks) :
                                  Contains(Lower(question), Lower(chunks[j].fund_name))}}

\* C1: find_relevant_chunks returns at most top_k results, each with a
\* similarity at or above the threshold, for every top_k that answer_question
\* passes to it.
C1_AtMostTopK ==
  (Answered /\ reply.answer.find_called /\ reply.answer.path # "raise") =>
    /\ Len(reply.answer.retrieved) <= reply.answer.top_k
    /\ \A i \in 1..Len(reply.answer.retrieved) :
         reply.answer.retrieved[i].similarity >= Threshold

\* C2 as stated: every question with an advice keyword and no holdings
\* keyword gets the fixed refusal, with the reference link as its only
\* source.
C2_RefusalForEveryAdviceQuestion ==
  (Answered /\ HasAdviceKeyword[reply.answer.q]
            /\ ~HasHoldingsKeyword[reply.answer.q]) =>
    /\ reply.status = 200
    /\ reply.answer.response = RefusalText
    /\ \A i \in 1..Len(reply.answer.sources) : reply.answer.sources[i].type = <<"r","e","f","e","r","e","n","c","e">>

\* C2 as amended: every question with an advice keyword and no holdings
\* keyword that is not a greeting (it neither is a greeting keyword nor
\* begins with one followed by a space) gets the fixed refusal, with the
\* reference link as its only source.
C2_RefusalUnlessGreeting ==
  (Answered /\ HasAdviceKeyword[reply.answer.q]
            /\ ~HasHoldingsKeyword[reply.answer.q]
            /\ ~BeginsWithGreeting[reply.answer.q]) =>
    /\ reply.status = 200
    /\ reply.answer.response = RefusalText
    /\ \A i \in 1..Len(reply.answer.sources) : reply.answer.sources[i].type = <<"r","e","f","e","r","e","n","c","e">>

\* an advice question that is not a greeting has been refused
C2_Witness ==
  /\ Answered
  /\ HasAdviceKeyword[reply.answer.q]
  /\ ~HasHoldingsKeyword[reply.answer.q]
  /\ ~BeginsWithGreeting[reply.answer.q]
  /\ reply.answer.path = "refusal"
  /\ reply.answer.sources = RefusalSources

\* C3: when the question names exactly one fund of the corpus, every source
\* of the answer is a chunk of that fund.
C3_SourcesOfNamedFundOnly ==
  (Answered /\ reply.answer.path = "answer"
            /\ Cardinality(NamedFunds(reply.answer.question, assistant.chunks)) = 1) =>
    \A i \in 1..Len(reply.answer.sources) :
      reply.answer.sources[i].fund_name
        \in NamedFunds(reply.answer.question, assistant.chunks)

\* C4: with every chunk inside the top_k, a chunk whose similarity equals the
\* threshold is in the result of find_relevant_chunks and a chunk whose
\* similarity is below the threshold is not.
C4_ThresholdIsInclusive ==
  (Answered /\ reply.answer.find_called /\ reply.answer.path # "raise"
            /\ reply.answer.top_k >= Len(assistant.chunks)) =>
    \A idx \in 1..Len(assistant.chunks) :
      /\ reply.answer.similarities[idx] = Threshold
           => InResults(reply.answer.retrieved, idx)
      /\ reply.answer.similarities[idx] < Threshold
           => ~InResults(reply.answer.retrieved, idx)

\* C5: when the text generation fails or has no credential, the call returns
\* normally and its response holds the rendered context verbatim and in full.
C5_FallbackHoldsFullContext ==
  (Answered /\ reply.answer.path = "answer"
            /\ reply.answer.generation \in {"failed", "no_key"}) =>
    /\ reply.status = 200
    /\ ContainsLines(reply.answer.response, reply.answer.context)

\* the message of WebFAQAssistant.generate_conversational_response for an
\* empty result
CouldNotFindText ==
  << <<"I"," ","c","o","u","l","d","n","'","t"," ","f","i","n","d"," ","r","e","l","e","v","a","n","t"," ","i","n","f","o","r","m","a","t","i","o","n"," ","t","o"," ","a","n","s","w","e","r"," ","y","o","u","r"," ","q","u","e","s","t","i","o","n","."," ","C","o","u","l","d"," ","y","o","u"," ","p","l","e","a","s","e"," ","r","e","p","h","r","a","s","e"," ","o","r"," ","a","s","k"," ","a","b","o","u","t"," ","a"," ","d","i","f","f","e","r","e","n","t"," ","t","o","p","i","c","?">> >>

\* C6: with an empty chunk set a question that reaches retrieval is answered
\* without an exception, from an empty result, by the "couldn't find relevant
\* information" message and no sources.
C6_EmptyCorpusAnswered ==
  (Answered /\ reply.answer.find_called /\ assistant.chunks = <<>>) =>
    /\ reply.status = 200
    /\ reply.answer.path # "raise"
    /\ reply.answer.retrieved = <<>>
    /\ reply.answer.response = CouldNotFindText
    /\ reply.answer.sources = <<>>

\* the expense_information chunks of a fund among the results
ExpenseChunksOf(results, f) ==
  SelectSeq(results, LAMBDA r : /\ r.chunk.fund_name = f
                                /\ r.chunk.chunk_type = <<"e","x","p","e","n","s","e","_","i","n","f","o","r","m","a","t","i","o","n">>
                                /\ HasKey(r.chunk.data, <<"e","x","p","e","n","s","e","_","r","a","t","i","o">>))

\* C7: when a question asks for the expense ratio of the one fund it names
\* in full and retrieval returns that fund's expense_information chunk, the
\* response (other than a text of the hosted model) holds the chunk's
\* expense_ratio and the sources are that chunk's triple alone.
C7_ExpenseRatioAnswered ==
  (Answered /\ reply.answer.find_called /\ reply.answer.path # "raise"
            /\ reply.answer.generation # "ok"
            /\ AsksExpenseRatio[reply.answer.q]) =>
    \A f \in NamedFunds(reply.answer.question, assistant.chunks) :
      (/\ NamedFunds(reply.answer.question, assistant.chunks) = {f}
       /\ ExpenseChunksOf(reply.answer.retrieved, f) # <<>>) =>
        \E i \in 1..Len(ExpenseChunksOf(reply.answer.retrieved, f)) :
          LET r == ExpenseChunksOf(reply.answer.retrieved, f)[i]
          IN  /\ TextContains(reply.answer.response,
                              Get(r.chunk.data, <<"e","x","p","e","n","s","e","_","r","a","t","i","o">>).value)
              /\ reply.answer.sources = <<SourceOf(r)>>

\* C8: the result of find_relevant_chunks is in descending order of
\* similarity, and results of equal similarity are in the order of the chunk
\* list.
C8_StableDescendingOrder ==
  (Answered /\ reply.answer.find_called /\ reply.answer.path # "raise") =>
    \A i, j \in 1..Len(reply.answer.retrieved) :
      i < j =>
        \/ reply.answer.retrieved[i].similarity > reply.answer.retrieved[j].similarity
        \/ /\ reply.answer.retrieved[i].similarity = reply.answer.retrieved[j].similarity
           /\ reply.answer.retrieved[i].idx < reply.answer.retrieved[j].idx

\* C9: no (fund_name, url, type) triple occurs twice in the sources.
C9_SourcesAreDistinct ==
  Answered =>
    \A i, j \in 1..Len(reply.answer.sources) :
      i # j => reply.answer.sources[i] # reply.answer.sources[j]

\* C10: the sources are the triples of exactly the chunks whose data the
\* context renders.
C10_SourcesAreRenderedChunks ==
  (Answered /\ reply.answer.path = "answer") =>
    {reply.answer.sources[i] : i \in 1..Len(reply.answer.sources)}
      = {SourceOf(RenderedChunks(reply.answer.relevant_chunks)[i]) :
           i \in 1..Len(RenderedChunks(reply.answer.relevant_chunks))}


\* C11: a greeting response and a general-definition response are decided
\* before retrieval: find_relevant_chunks has not been called when
\* answer_question returns either of them.
C11_CannedBeforeRetrieval ==
  (Answered /\ reply.answer.path \in {"greeting", "general"}) =>
    ~reply.answer.find_called

\* C12: every POST /ask that returns a response (status 200) appends exactly
\* one entry to the conversation log that GET /history returns.
C12_EveryAnswerIsLogged ==
  [][(/\ request # None /\ request.route = "/ask"
      /\ reply' # None /\ reply'.status = 200)
       => HistoryLen' = HistoryLen + 1]_vars

\* a request body without JSON object, or without (non-blank) question or
\* API key
Malformed(body) == body.kind # "object" \/ Strip(body.value) = <<>>

\* C13: a POST /ask or POST /init with a malformed body is answered with a
\* 4xx status, whatever the state of the global assistant.
C13_MalformedBodyIs4xx ==
  [][(/\ request # None /\ request.route \in {"/ask", "/init"}
      /\ Malformed(request.body)
      /\ reply' # None)
       => reply'.status \in 400..499]_vars


\* the conversation history of the global assistant, [] without assistant
HistoryOf(a) == IF a = None THEN <<>> ELSE a.conversation_history

\* the step is the handler of the route serving the request
Handles(route) == request # None /\ request.route = route /\ request' = None

Aligned(a) ==
  /\ Len(a.embeddings.embeddings) = Len(a.chunks)
  /\ \A i \in 1..Len(a.chunks) : IsEmbeddingOf(a.embeddings.embeddings[i], a.chunks[i])

\* C14: whenever a chatbot process answers a question, its loaded embedding
\* table has exactly as many vectors as its flattened chunk list has chunks,
\* and vector i is the embedding of chunk i, after any sequence of chunk-file
\* edits, embedding regenerations and process starts.
C14_TableAlignedWhenAnswering ==
  process.answer # None => Aligned(process.assistant)

\* C15: an embedding file written in the wrapped form {embeddings, metadata}
\* can be loaded, and find_relevant_chunks over it returns the same ranking
\* as over the flat array of the same vectors, without raising.
C15_WrappedRanksLikeFlat ==
  (process.answer # None /\ process.assistant.embeddings.wrapped) =>
     /\ ~process.answer.raised
     /\ [raised |-> process.answer.raised, results |-> process.answer.results]
          \in FlatRankings(process.assistant, process.answer.question)

\* C16: once a process has loaded its chunk list and embedding table, no
\* later request reloads, reassigns or mutates them: the table a question is
\* ranked against is the one loaded first, for the whole process lifetime.
C16_TableLoadedOnce ==
  [][(process.assistant # None /\ process'.assistant # None)
       => process'.assistant = process.assistant]_vars

\* C30: split_expense_chunks is idempotent: running it a second time on its
\* own output leaves rag_chunks.json unchanged, so the nav_sip_information
\* chunks created by the first run are still present with the same data
\* after any number of runs.
C30_SplitIsIdempotent ==
  HasCategory(files.rag_chunks, "expense_information") =>
    LET once == split_expense_chunks(files.rag_chunks)
    IN  /\ split_expense_chunks(once) = once
        /\ CategoryChunks(split_expense_chunks(once), "nav_sip_information")
             = CategoryChunks(once, "nav_sip_information")

(***************************************************************************)
(* Properties of the database.                                             *)
(***************************************************************************)
\* C17: after any sequence of save_scheme_data calls, committed or rolled
\* back, there is at most one Scheme row per source_url, and a Scheme row
\* that once existed is never removed.
C17_OneSchemePerUrlNeverRemoved ==
  /\ [](\A i, j \in 1..Len(db.schemes) :
          db.schemes[i].source_url = db.schemes[j].source_url => i = j)
  /\ [][\A i \in 1..Len(db.schemes) :
          \E j \in 1..Len(db'.schemes) :
            /\ db'.schemes[j].id = db.schemes[i].id
            /\ db'.schemes[j].source_url = db.schemes[i].source_url]_vars

\* a re-scrape has been saved next to the scheme of another URL
C17_Witness ==
  /\ scrape.last # None /\ scrape.last.rescrape /\ scrape.last.scheme_id # NoId
  /\ Len(db.schemes) = 2
  /\ scrape.results.failed > 0

\* C18: after any sequence of save_scheme_data calls there is at most one
\* SchemeData row for each (scheme_id, data_type) pair.
C18_OneRowPerSchemeAndType ==
  \A i, j \in 1..Len(db.scheme_data) :
    (/\ db.scheme_data[i].scheme_id = db.scheme_data[j].scheme_id
     /\ db.scheme_data[i].data_type = db.scheme_data[j].data_type) => i = j

\* a re-scrape has been saved that captured a field the database held already
C18_Witness ==
  /\ scrape.last # None /\ scrape.last.rescrape /\ scrape.last.scheme_id # NoId
  /\ scrape.last.data.nav # None
  /\ Len(db.scrape_logs) >= 2
  /\ db.scrape_logs[1].scheme_url = scrape.last.data.source_url
  /\ db.scrape_logs[1].data_count = Len(DataTypes)

\* C19: after a re-scrape of a URL has been saved, the value get_scheme_data
\* returns for every field of that scheme is the value of the most recent
\* scrape: no value captured only by an earlier scrape remains stored.
C19_LastWriteWinsForEveryField ==
  (scrape.last # None /\ scrape.last.rescrape /\ scrape.last.scheme_id # NoId) =>
    LET data == scrape.last.data
        stored == get_scheme_data(db, data.source_url).data
    IN  \A i \in 1..Len(DataTypes) :
          IF data[DataTypes[i]] = None
          THEN DataTypes[i] \notin DOMAIN stored
          ELSE /\ DataTypes[i] \in DOMAIN stored
               /\ stored[DataTypes[i]] = data[DataTypes[i]]

\* C20: every scrape attempt adds exactly one ScrapeLog row, also an attempt
\* that fails URL validation, raises while fetching, or fails to save, and no
\* operation ever updates or deletes an existing ScrapeLog row.
C20_OneLogRowPerAttempt ==
  [][(scrape # None /\ scrape' # scrape) =>
       /\ Len(db'.scrape_logs) = Len(db.scrape_logs) + 1
       /\ SubSeq(db'.scrape_logs, 1, Len(db.scrape_logs)) = db.scrape_logs]_vars

\* C21: when save_scheme_data hits a persistence error it returns None
\* without raising, and the Scheme, SchemeData and ScrapeLog tables are left
\* exactly as they were before the call.
C21_FailedSaveLeavesTables ==
  [][(scrape' # scrape /\ scrape'.last # None
      /\ scrape'.last.scheme_id = NoId) => db' = db]_vars

\* a save of a page without fund name has failed on a database that holds
\* the scheme and data of that URL
C21_Witness ==
  /\ scrape.last # None /\ scrape.last.scheme_id = NoId /\ scrape.last.rescrape
  /\ scrape.last.data.nav # None
  /\ db.scheme_data # <<>>

\* C26: a Scheme row for a URL is created only by a successful scrape of that
\* URL: a scrape whose validation result carries errors (status 'failed')
\* creates no Scheme row and stores no SchemeData for it.
C26_FailedScrapeStoresNothing ==
  [][(/\ scrape' # scrape /\ scrape'.last # None
      /\ validate_scraped_data(scrape'.last.data).errors # <<>>)
       => (db'.schemes = db.schemes /\ db'.scheme_data = db.scheme_data)]_vars

\* C27: when save_scheme_data is given a validation result produced by
\* validate_scraped_data, the status it writes to ScrapeLog is 'failed'
\* exactly when the error list is non-empty and 'success' exactly when it is
\* empty; 'partial' is never recorded, however many warnings there are.
C27_StatusFollowsErrors ==
  /\ \A i \in 1..Len(db.scrape_logs) : db.scrape_logs[i].status \in {"success", "failed"}
  /\ (scrape.last # None /\ scrape.last.scheme_id # NoId) =>
       LET result == validate_scraped_data(scrape.last.data)
           status == db.scrape_logs[Len(db.scrape_logs)].status
       IN  /\ status = "failed" <=> result.errors # <<>>
           /\ status = "success" <=> result.errors = <<>>

\* a scrape without errors and with warnings has been logged, after one with
\* errors
C27_Witness ==
  /\ scrape.last # None /\ scrape.last.scheme_id # NoId
  /\ validate_scraped_data(scrape.last.data).errors = <<>>
  /\ Len(validate_scraped_data(scrape.last.data).warnings) >= 2
  /\ Len(db.scrape_logs) >= 2
  /\ db.scrape_logs[1].status = "failed"

(***************************************************************************)
(* Properties of the validator.                                            *)
(***************************************************************************)
\* C22: validate_scraped_data never raises, for any scraped-data dictionary
\* and whatever the type or shape of each field value: every malformed field
\* is reported as an entry of errors or warnings, and is_valid is true
\* exactly when errors is empty.
C22_ValidationNeverRaises ==
  (scrape.data # None /\ scrape.validation # None) =>
     /\ ~scrape.validation.raised
     /\ scrape.validation.is_valid <=> scrape.validation.errors = <<>>
AsksAbout(in, i) ==
  CASE i = 1 -> in.asking_about_characteristics
    [] i = 2 -> in.asking_about_nav
    [] i = 3 -> in.asking_about_expense
    [] i = 4 -> in.asking_about_performance
    [] i = 5 -> in.asking_about_risk
    [] i = 6 -> in.asking_about_holdings

\* the intents a question has keywords of
IntentsOf(in) == {i \in 1..Len(FilterTypes) : AsksAbout(in, i)}

\* the chunks of the type among the entries
OfType(entries, chunk_type) ==
  SelectSeq(entries, LAMBDA c : c.chunk.chunk_type = chunk_type)

\* C24: the chunk-type filter answer_question applies is that of the first
\* matching intent in the order characteristics, NAV/SIP/exit-load, expense,
\* P/E-P/B performance, risk, holdings: a question that matches keywords of
\* several intents is routed only by the earliest of them in that order.
C24_EarliestIntentRoutes ==
  (reply # None) =>
    LET in == FilterIntentOf[request.question]
    IN  \A i \in IntentsOf(in) :
          (\A j \in IntentsOf(in) : i <= j) =>
             /\ OfType(reply.narrowed, FilterTypes[i]) # <<>>
                  => reply.relevant_chunks = <<OfType(reply.narrowed, FilterTypes[i])[1]>>
             /\ \A j \in IntentsOf(in) \ {i} :
                  (/\ OfType(reply.narrowed, FilterTypes[i]) # <<>>
                   /\ OfType(reply.narrowed, FilterTypes[j]) # <<>>)
                    => reply.relevant_chunks[1].chunk.chunk_type # FilterTypes[j]

\* a question about fund size and NAV, with a NAV chunk ranked above a
\* characteristics chunk, was routed to the characteristics chunk
C24_Witness ==
  /\ reply # None
  /\ IntentsOf(FilterIntentOf[request.question]) = {1, 2}
  /\ Len(reply.narrowed) = 2
  /\ reply.narrowed[1].chunk.chunk_type = <<"n","a","v","_","s","i","p","_","i","n","f","o","r","m","a","t","i","o","n">>
  /\ reply.narrowed[2].chunk.chunk_type = <<"f","u","n","d","_","c","h","a","r","a","c","t","e","r","i","s","t","i","c","s">>
  /\ reply.relevant_chunks = <<reply.narrowed[2]>>

\* C25: when an intent with a target chunk type is detected, the chunks
\* handed to formatting are all of that type whenever the candidates (after
\* fund narrowing) contain a chunk of that type; when they contain none, the
\* highest-ranked candidate of any type is used instead, so the result is
\* empty only if the candidate list was empty.
C25_TypedOrTopCandidate ==
  (reply # None /\ IntentsOf(FilterIntentOf[request.question]) # {}) =>
    LET intents == IntentsOf(FilterIntentOf[request.question])
        target == FilterTypes[CHOOSE i \in intents : \A j \in intents : i <= j]
    IN  /\ OfType(reply.narrowed, target) # <<>> =>
             /\ reply.relevant_chunks # <<>>
             /\ \A k \in 1..Len(reply.relevant_chunks) :
                  reply.relevant_chunks[k].chunk.chunk_type = target
        /\ (OfType(reply.narrowed, target) = <<>> /\ reply.narrowed # <<>>) =>
             reply.relevant_chunks = <<reply.narrowed[1]>>
        /\ reply.relevant_chunks = <<>> => reply.narrowed = <<>>

\* an expense question about a fund whose candidates, narrowed to the fund,
\* have no expense chunk, got the first of them
C25_Witness ==
  /\ reply # None
  /\ IntentsOf(FilterIntentOf[request.question]) = {3}
  /\ Len(reply.narrowed) = 2
  /\ OfType(reply.narrowed, <<"e","x","p","e","n","s","e","_","i","n","f","o","r","m","a","t","i","o","n">>) = <<>>
  /\ reply.relevant_chunks = <<reply.narrowed[1]>>

(***************************************************************************)
(* Properties of requests served at the same time.                         *)
(***************************************************************************)
\* C29: if two POST /ask requests are handled concurrently while the global
\* assistant is still uninitialized, exactly one assistant ends up
\* installed and both questions appear in the conversation history that a
\* later GET /history returns: no interaction is lost to the
\* lazy-initialization race or to a concurrent /init.
C29_NoInteractionLost ==
  (reply # None /\ \A thread \in AskThreads : request[thread].lazy) =>
     /\ assistant.global # NoObject
     /\ \A thread \in AskThreads :
          \E i \in 1..Len(reply.history) : reply.history[i] = Interaction(thread)

====
